---- MODULE Spec2Model ----
(***************************************************************************)
(* A model of python-azviz's resource graph builder (GraphBuilder) and     *)
(* DOT emitter (DOTGenerator).                                             *)
(*                                                                         *)
(* Strings are TLA+ strings; Python's str methods are modelled character   *)
(* by character on them (Len, SubSeq and \o are defined on strings).       *)
(* Python lists are sequences, dicts are sequences of entries in insertion *)
(* order, and a Python set that the code iterates is iterated in an order  *)
(* the action chooses.                                                     *)
(***************************************************************************)
EXTENDS Integers, Sequences, FiniteSets, TLC

VARIABLES
    config,     \* the VisualizationConfig the builder and generator were created with
    resources,  \* the resource list of the last build_graph call
    topology,   \* the association list of the last build_graph call
    nodes,      \* GraphBuilder.nodes
    edges,      \* GraphBuilder.edges
    graph,      \* GraphBuilder.graph (nx.DiGraph)
    subgraphs,  \* GraphBuilder.subgraphs
    dot,        \* the document of the last generate_dot call
    builds,     \* the number of build_graph calls so far
    pc,         \* what the last operation was
    probe       \* arguments and results of a function applied on its own

vars == <<config, resources, topology, nodes, edges, graph, subgraphs, dot, builds, pc, probe>>

builder == <<config, resources, topology, nodes, edges, graph, subgraphs, dot, builds>>

(***************************************************************************)
(* Python str methods.                                                     *)
(***************************************************************************)
UpperLetters == "ABCDEFGHIJKLMNOPQRSTUVWXYZ"

LowerLetters == "abcdefghijklmnopqrstuvwxyz"

CharAt(s, i) == SubSeq(s, i, i)

\* str.lower() of one character
LowerChar(c) ==
    IF \E i \in 1..Len(UpperLetters) : CharAt(UpperLetters, i) = c
    THEN CharAt(LowerLetters, CHOOSE i \in 1..Len(UpperLetters) : CharAt(UpperLetters, i) = c)
    ELSE c

RECURSIVE StrLower(_)
\* str.lower(): character by character, the two halves of s in turn
StrLower(s) ==
    IF Len(s) = 0 THEN ""
    ELSE IF Len(s) = 1 THEN LowerChar(s)
    ELSE LET half == Len(s) \div 2
         IN  StrLower(SubSeq(s, 1, half)) \o StrLower(SubSeq(s, half + 1, Len(s)))

\* the positions of s at which sub occurs
Occurrences(s, sub) ==
    {i \in 1..(Len(s) - Len(sub) + 1) : SubSeq(s, i, i + Len(sub) - 1) = sub}

\* the leftmost position of s at which sub occurs (s contains sub)
FirstOccurrence(s, sub) ==
    CHOOSE i \in Occurrences(s, sub) : \A j \in Occurrences(s, sub) : i <= j

RECURSIVE StrReplace(_, _, _)
\* str.replace(old, new) for a non-empty old: leftmost occurrences, not overlapping
StrReplace(s, old, new) ==
    IF Occurrences(s, old) = {} THEN s
    ELSE LET at == FirstOccurrence(s, old)
         IN  SubSeq(s, 1, at - 1) \o new
             \o StrReplace(SubSeq(s, at + Len(old), Len(s)), old, new)

\* str.startswith(prefix)
StartsWith(s, prefix) ==
    /\ Len(prefix) <= Len(s)
    /\ SubSeq(s, 1, Len(prefix)) = prefix

\* str.endswith(suffix)
EndsWith(s, suffix) ==
    /\ Len(suffix) <= Len(s)
    /\ SubSeq(s, Len(s) - Len(suffix) + 1, Len(s)) = suffix

\* sub in s
StrContains(s, sub) == Occurrences(s, sub) # {}

RECURSIVE StrSplit(_, _)
\* str.split(sep) for a non-empty sep
StrSplit(s, sep) ==
    IF Occurrences(s, sep) = {} THEN <<s>>
    ELSE LET at == FirstOccurrence(s, sep)
         IN  <<SubSeq(s, 1, at - 1)>> \o StrSplit(SubSeq(s, at + Len(sep), Len(s)), sep)

\* parts[-1]
Last(seq) == seq[Len(seq)]

Range(seq) == {seq[i] : i \in 1..Len(seq)}

(***************************************************************************)
(* GraphBuilder._matches_pattern and the exclusion loop of                 *)
(* GraphBuilder._filter_resources.                                         *)
(***************************************************************************)
\* a matcher that compares the pattern's parts case-sensitively
MatchesPatternCaseSensitive(resource_type, pattern) ==
    IF StrContains(pattern, "*")
    THEN LET pattern_parts == StrSplit(pattern, "*")
         IN  IF Len(pattern_parts) = 1
             THEN StrContains(resource_type, pattern_parts[1])
             ELSE IF Len(pattern_parts) = 2
             THEN /\ StartsWith(resource_type, pattern_parts[1])
                  /\ EndsWith(resource_type, pattern_parts[2])
             ELSE resource_type = pattern
    ELSE resource_type = pattern

_matches_pattern(resource_type, pattern) ==
    IF StrContains(pattern, "*")
    THEN LET pattern_parts == StrSplit(StrLower(pattern), "*")
             resource_type_lower == StrLower(resource_type)
         IN  IF Len(pattern_parts) = 1
             THEN StrContains(resource_type_lower, pattern_parts[1])
             ELSE IF Len(pattern_parts) = 2
             THEN /\ StartsWith(resource_type_lower, pattern_parts[1])
                  /\ EndsWith(resource_type_lower, pattern_parts[2])
             ELSE StrLower(resource_type) = StrLower(pattern)
    ELSE StrLower(resource_type) = StrLower(pattern)

\* a loop that asks the pattern at position i only
ExcludedByPatternAt(resource_type, pattern_order, i) ==
    _matches_pattern(resource_type, pattern_order[i])

RECURSIVE ExcludedFrom(_, _, _)
\* the loop over exclude_types, in the order pattern_order, from position i
ExcludedFrom(resource_type, pattern_order, i) ==
    IF i > Len(pattern_order) THEN FALSE
    ELSE IF _matches_pattern(resource_type, pattern_order[i]) THEN TRUE
    ELSE ExcludedFrom(resource_type, pattern_order, i + 1)

RECURSIVE ExcludeLoop(_, _, _)
\* final_filtered: the resources of filtered from position i on that no pattern matches
ExcludeLoop(filtered, pattern_order, i) ==
    IF i > Len(filtered) THEN <<>>
    ELSE (IF ExcludedFrom(filtered[i].resource_type, pattern_order, 1)
          THEN <<>> ELSE <<filtered[i]>>)
         \o ExcludeLoop(filtered, pattern_order, i + 1)

(***************************************************************************)
(* Node id synthesis of GraphBuilder._create_resource_node.                *)
(***************************************************************************)
TypeSuffix(resource_type) ==
    IF StrContains(resource_type, "/")
    THEN StrLower(Last(StrSplit(resource_type, "/")))
    ELSE StrLower(resource_type)

NodeId(category, name, resource_type) ==
    StrReplace(
        StrReplace(
            StrReplace(
                StrLower(category) \o "_" \o StrLower(name) \o "_" \o TypeSuffix(resource_type),
                " ", "_"),
            "-", "_"),
        ".", "_")

(***************************************************************************)
(* AzureResource (core/models.py).  A dependency entry is either a plain   *)
(* string (the legacy form) or a ResourceDependency; form tells which.     *)
(***************************************************************************)
\* Python's None where a string is expected
None == "None"

ResourceDependency(target_name, dependency_type, description) ==
    [form |-> "ResourceDependency", target_name |-> target_name,
     dependency_type |-> dependency_type, description |-> description]

\* a dependency stored as a plain string
StrDependency(target_name) ==
    [form |-> "str", target_name |-> target_name,
     dependency_type |-> None, description |-> None]

AzureResource(name, resource_type, category, resource_group, dependencies, properties) ==
    [name |-> name, resource_type |-> resource_type, category |-> category,
     location |-> "eastus", resource_group |-> resource_group,
     subscription_id |-> "sub", properties |-> properties,
     dependencies |-> dependencies]

\* AzureResource.get_dependency_names
\* get_dependency_names skipping the entries stored as plain strings
get_dependency_names_typed_only(resource) ==
    LET typed == SelectSeq(resource.dependencies, LAMBDA dep : dep.form # "str")
    IN  [i \in 1..Len(typed) |-> typed[i].target_name]

get_dependency_names(resource) ==
    [i \in 1..Len(resource.dependencies) |-> resource.dependencies[i].target_name]

Names(rs) == {rs[i].name : i \in 1..Len(rs)}

(***************************************************************************)
(* GraphBuilder._filter_compute_only.                                      *)
(***************************************************************************)
compute_resource_types ==
    {"microsoft.compute/virtualmachines",
     "microsoft.compute/virtualmachinescalesets",
     "microsoft.compute/disks",
     "microsoft.compute/snapshots",
     "microsoft.compute/sshpublickeys",
     "microsoft.compute/galleries",
     "microsoft.compute/galleries/images",
     "microsoft.compute/galleries/images/versions",
     "microsoft.containerservice/managedclusters",
     "microsoft.redhatopenshift/openshiftclusters"}

compute_related_types ==
    {"microsoft.network/networkinterfaces",
     "microsoft.network/publicipaddresses",
     "microsoft.network/virtualnetworks/subnets",
     "microsoft.network/networksecuritygroups",
     "microsoft.network/loadbalancers",
     "microsoft.storage/storageaccounts",
     "microsoft.managedidentity/userassignedidentities",
     "internet/gateway"}

IsComputeType(r) == StrLower(r.resource_type) \in compute_resource_types

IsRelatedType(r) == StrLower(r.resource_type) \in compute_related_types

\* a candidate test that does not look at the type
RelatedCandidateAnyType(r, related) == r.name \notin Names(related)

\* the candidates every step looks at: a related type whose name is not yet taken
RelatedCandidate(r, related) == IsRelatedType(r) /\ r.name \notin Names(related)

RECURSIVE ComputeStep1(_, _, _, _)
\* Step 1: related resources in a compute resource's group, and the Internet resource
ComputeStep1(rs, groups, i, related) ==
    IF i > Len(rs) THEN related
    ELSE ComputeStep1(rs, groups, i + 1,
            IF /\ RelatedCandidate(rs[i], related)
               /\ \/ rs[i].resource_group \in groups
                  \/ StrLower(rs[i].resource_type) = "internet/gateway"
            THEN Append(related, rs[i]) ELSE related)

RECURSIVE ComputeStep2(_, _, _, _, _, _)
\* Step 2: what the compute resources depend on; c, d, k index the three loops
ComputeStep2(rs, compute, c, d, k, related) ==
    IF c > Len(compute) THEN related
    ELSE IF d > Len(compute[c].dependencies)
    THEN ComputeStep2(rs, compute, c + 1, 1, 1, related)
    ELSE IF k > Len(rs) THEN ComputeStep2(rs, compute, c, d + 1, 1, related)
    ELSE ComputeStep2(rs, compute, c, d, k + 1,
            IF /\ rs[k].name = get_dependency_names(compute[c])[d]
               /\ RelatedCandidate(rs[k], related)
            THEN Append(related, rs[k]) ELSE related)

RECURSIVE ComputeStep3(_, _, _, _)
\* Step 3: related resources that depend on a compute resource
ComputeStep3(rs, compute_names, i, related) ==
    IF i > Len(rs) THEN related
    ELSE ComputeStep3(rs, compute_names, i + 1,
            IF /\ RelatedCandidate(rs[i], related)
               /\ \E d \in 1..Len(rs[i].dependencies) :
                     get_dependency_names(rs[i])[d] \in compute_names
            THEN Append(related, rs[i]) ELSE related)

\* s[:n]
StrPrefix(s, n) == SubSeq(s, 1, IF n < Len(s) THEN n ELSE Len(s))

\* the naming patterns of Step 4, on the lower-cased names
NamePatternMatch(vm_name, resource_name) ==
    \/ StrContains(resource_name, vm_name)
    \/ StrContains(vm_name, resource_name)
    \/ \E sep \in {"-", "_", " "} :
          StrReplace(vm_name, sep, "") = StrReplace(resource_name, sep, "")
    \/ \E prefix \in {StrPrefix(vm_name, 4), StrPrefix(vm_name, 6)} :
          /\ Len(prefix) >= 3
          /\ StartsWith(vm_name, prefix)
          /\ StartsWith(resource_name, prefix)

RECURSIVE ComputeStep4(_, _, _, _, _)
\* Step 4: related resources named after a virtual machine
ComputeStep4(rs, compute, c, k, related) ==
    IF c > Len(compute) THEN related
    ELSE IF StrLower(compute[c].resource_type) # "microsoft.compute/virtualmachines"
            \/ k > Len(rs)
    THEN ComputeStep4(rs, compute, c + 1, 1, related)
    ELSE ComputeStep4(rs, compute, c, k + 1,
            IF /\ RelatedCandidate(rs[k], related)
               /\ NamePatternMatch(StrLower(compute[c].name), StrLower(rs[k].name))
            THEN Append(related, rs[k]) ELSE related)

\* a Step 5 that walks the network interfaces of the whole input
Step5WalksInput(rs, related) == rs

\* the list Step 5 walks: the related resources collected so far
Step5Walk(rs, related) == related

RECURSIVE ComputeStep5(_, _, _, _, _)
\* Step 5: the subnets the related network interfaces depend on
ComputeStep5(rs, n, d, k, related) ==
    LET walk == Step5Walk(rs, related)
    IN  IF n > Len(walk) THEN related
        ELSE IF StrLower(walk[n].resource_type) # "microsoft.network/networkinterfaces"
                \/ d > Len(walk[n].dependencies)
        THEN ComputeStep5(rs, n + 1, 1, 1, related)
        ELSE IF k > Len(rs) THEN ComputeStep5(rs, n, d + 1, 1, related)
        ELSE ComputeStep5(rs, n, d, k + 1,
                IF /\ rs[k].name = get_dependency_names(walk[n])[d]
                   /\ StrLower(rs[k].resource_type) = "microsoft.network/virtualnetworks/subnets"
                   /\ rs[k].name \notin Names(related)
                THEN Append(related, rs[k]) ELSE related)

_filter_compute_only(rs) ==
    LET compute_resources == SelectSeq(rs, IsComputeType)
        compute_resource_names == Names(compute_resources)
        compute_resource_groups ==
            {compute_resources[i].resource_group : i \in 1..Len(compute_resources)}
        step1 == ComputeStep1(rs, compute_resource_groups, 1, <<>>)
        step2 == ComputeStep2(rs, compute_resources, 1, 1, 1, step1)
        step3 == ComputeStep3(rs, compute_resource_names, 1, step2)
        step4 == ComputeStep4(rs, compute_resources, 1, 1, step3)
        related_resources == ComputeStep5(rs, 1, 1, 1, step4)
    IN  IF compute_resources = <<>> THEN <<>>
        ELSE compute_resources \o related_resources

\* a filter that drops the excluded resources before the compute-only expansion
_filter_resources_exclusion_first(rs, cfg, pattern_order) ==
    LET kept == IF cfg.exclude_types # {} THEN ExcludeLoop(rs, pattern_order, 1) ELSE rs
    IN  IF cfg.compute_only THEN _filter_compute_only(kept) ELSE kept

(***************************************************************************)
(* GraphBuilder._filter_resources.  exclude_types is a set: pattern_order  *)
(* is the order in which this run iterates it.                             *)
(***************************************************************************)
_filter_resources(rs, cfg, pattern_order) ==
    LET filtered == IF cfg.compute_only THEN _filter_compute_only(rs) ELSE rs
    IN  IF cfg.exclude_types # {} THEN ExcludeLoop(filtered, pattern_order, 1)
        ELSE filtered

\* the orders in which a set can be iterated
Orders(S) ==
    {o \in [1..Cardinality(S) -> S] : \A x \in S : \E i \in DOMAIN o : o[i] = x}

(***************************************************************************)
(* VisualizationConfig (core/models.py), with its defaults.                *)
(***************************************************************************)
DefaultConfig ==
    [label_verbosity |-> 2, category_depth |-> 2, theme |-> "light",
     direction |-> "left-to-right", splines |-> "polyline", exclude_types |-> {},
     show_legends |-> TRUE, show_power_state |-> TRUE, compute_only |-> FALSE]

\* GraphBuilder.__init__
NewBuilder(cfg) ==
    /\ config = cfg
    /\ resources = <<>>
    /\ topology = <<>>
    /\ nodes = <<>>
    /\ edges = <<>>
    /\ graph = [nodes |-> <<>>, edges |-> <<>>]
    /\ subgraphs = <<>>
    /\ dot = <<>>
    /\ builds = 0
    /\ pc = "new"

(***************************************************************************)
(* Input spaces.                                                           *)
(***************************************************************************)
\* the sequences over S of length at most n
SeqsUpTo(S, n) == UNION {[1..k -> S] : k \in 0..n}

RECURSIVE StrsUpTo(_, _)
\* the non-empty strings over alphabet of length at most n
StrsUpTo(alphabet, n) ==
    IF n <= 1 THEN alphabet
    ELSE LET shorter == StrsUpTo(alphabet, n - 1)
         IN  shorter \cup {s \o c : s \in shorter, c \in alphabet}

T_VM == "Microsoft.Compute/virtualMachines"

T_Disk == "Microsoft.Compute/disks"

T_NIC == "Microsoft.Network/networkInterfaces"

T_PIP == "Microsoft.Network/publicIPAddresses"

T_Subnet == "Microsoft.Network/virtualNetworks/subnets"

T_VNet == "Microsoft.Network/virtualNetworks"

T_NSG == "Microsoft.Network/networkSecurityGroups"

T_Storage == "Microsoft.Storage/storageAccounts"

T_Internet == "Internet/Gateway"

Explicit(target_name) == ResourceDependency(target_name, "explicit", None)

(***************************************************************************)
(* _matches_pattern applied on its own: SpecMatch.                         *)
(***************************************************************************)
MaxTypeLen == 3

MaxPatternLen == 3

MatchTypes ==
    StrsUpTo({"a", "B"}, MaxTypeLen)
    \cup {"Provider/virtualNetworks/subnets", "Provider/loadBalancers",
          "provider/LOADBALANCERS", "Provider/loadBalancers/probes"}

MatchPatterns ==
    StrsUpTo({"A", "b", "*"}, MaxPatternLen)
    \cup {"*subnets*", "Provider/loadBalancers", "Provider/*", "*/subnets",
          "provider/*/SUBNETS"}

InitMatch ==
    /\ NewBuilder(DefaultConfig)
    /\ probe \in {[fn |-> "_matches_pattern", resource_type |-> t, pattern |-> p,
                   done |-> FALSE, matched |-> FALSE, kept |-> <<>>] :
                  t \in MatchTypes, p \in MatchPatterns}

\* _matches_pattern(resource_type, pattern), and _filter_resources on one resource of
\* that type with the pattern as the only exclusion
MatchesPattern ==
    /\ probe.fn = "_matches_pattern"
    /\ ~probe.done
    /\ probe' = [probe EXCEPT
            !.done = TRUE,
            !.matched = _matches_pattern(probe.resource_type, probe.pattern),
            !.kept = _filter_resources(
                        <<AzureResource("r", probe.resource_type, "Network", "rg1", <<>>, <<>>)>>,
                        [DefaultConfig EXCEPT !.exclude_types = {probe.pattern}],
                        <<probe.pattern>>)]
    /\ UNCHANGED <<builder, pc>>

NextMatch == MatchesPattern

SpecMatch == InitMatch /\ [][NextMatch]_vars

StarCount(p) == Cardinality({i \in 1..Len(p) : CharAt(p, i) = "*"})

\* the reference rule, character by character: without a wildcard, equality ignoring
\* case; with one wildcard at position k, the type starts with the k-1 characters
\* before it and ends with the characters after it, ignoring case
ReferenceMatch(t, p) ==
    IF StarCount(p) = 0
    THEN /\ Len(t) = Len(p)
         /\ \A i \in 1..Len(p) : LowerChar(CharAt(t, i)) = LowerChar(CharAt(p, i))
    ELSE LET k == CHOOSE i \in 1..Len(p) : CharAt(p, i) = "*"
             nsuf == Len(p) - k
         IN  /\ k - 1 <= Len(t)
             /\ nsuf <= Len(t)
             /\ \A i \in 1..(k - 1) : LowerChar(CharAt(t, i)) = LowerChar(CharAt(p, i))
             /\ \A j \in 1..nsuf :
                   LowerChar(CharAt(t, Len(t) - nsuf + j)) = LowerChar(CharAt(p, k + j))

\* C3: the pattern "*subnets*" matches the type "Provider/virtualNetworks/subnets",
\* and the resource filter drops a resource of that type when the pattern is excluded.
C3_SubnetsWildcardExcludes ==
    (/\ probe.fn = "_matches_pattern"
     /\ probe.done
     /\ probe.pattern = "*subnets*"
     /\ probe.resource_type = "Provider/virtualNetworks/subnets")
    => (probe.matched /\ probe.kept = <<>>)

\* C4: for every type and every pattern with at most one wildcard, _matches_pattern
\* agrees with the reference rule (equality ignoring case without a wildcard; prefix
\* and suffix ignoring case with one).
C4_MatchesReferenceRule ==
    (/\ probe.fn = "_matches_pattern"
     /\ probe.done
     /\ StarCount(probe.pattern) <= 1)
    => /\ probe.matched = ReferenceMatch(probe.resource_type, probe.pattern)
       /\ (probe.kept = <<>>) = probe.matched

\* C4's case: a pattern with a prefix and a suffix around one wildcard has matched a
\* type that differs from it in case
C4_Witness ==
    /\ probe.fn = "_matches_pattern"
    /\ probe.done
    /\ StarCount(probe.pattern) = 1
    /\ ~StartsWith(probe.pattern, "*")
    /\ ~EndsWith(probe.pattern, "*")
    /\ probe.matched
    /\ ~MatchesPatternCaseSensitive(probe.resource_type, probe.pattern)

(***************************************************************************)
(* _filter_compute_only applied to its own output: SpecComputeOnly.        *)
(***************************************************************************)
MaxResources == 3

MaxApplications == 2

\* one resource for each way into the result, and some that stay out
ComputePool ==
    {AzureResource("vm1", T_VM, "Compute", "rg1", <<Explicit("pipx")>>, <<>>),
     AzureResource("vm1-nic", T_NIC, "Network", "rg2", <<Explicit("sub1")>>, <<>>),
     AzureResource("nicb", T_NIC, "Network", "rg2", <<Explicit("vm1"), Explicit("sub2")>>, <<>>),
     AzureResource("lonely", T_NIC, "Network", "rg3", <<Explicit("sub2")>>, <<>>),
     AzureResource("pipx", T_PIP, "Network", "rg2", <<>>, <<>>),
     AzureResource("vm1-nic", T_PIP, "Network", "rg3", <<>>, <<>>),
     AzureResource("sub1", T_Subnet, "Network", "rg2", <<>>, <<>>),
     AzureResource("sub2", T_Subnet, "Network", "rg3", <<>>, <<>>),
     AzureResource("nsg", T_NSG, "Network", "rg1", <<>>, <<>>),
     AzureResource("nsg", T_PIP, "Network", "rg1", <<>>, <<>>),
     AzureResource("vnet", T_VNet, "Network", "rg1", <<Explicit("sub1")>>, <<>>),
     AzureResource("Internet", T_Internet, "Internet", "internet", <<StrDependency("pipx")>>, <<>>)}

InitComputeOnly ==
    /\ NewBuilder([DefaultConfig EXCEPT !.compute_only = TRUE])
    /\ probe \in {[fn |-> "_filter_compute_only", input |-> rs, applied |-> 0,
                   prev |-> rs, out |-> rs] :
                  rs \in SeqsUpTo(ComputePool, MaxResources)}

\* _filter_compute_only on the list the previous application returned
FilterComputeOnly ==
    /\ probe.fn = "_filter_compute_only"
    /\ probe.applied < MaxApplications
    /\ probe' = [probe EXCEPT !.applied = @ + 1,
                              !.prev = probe.out,
                              !.out = _filter_compute_only(probe.out)]
    /\ UNCHANGED <<builder, pc>>

NextComputeOnly == FilterComputeOnly

SpecComputeOnly == InitComputeOnly /\ [][NextComputeOnly]_vars

\* C5: applying the compute-only expansion to its own output yields the same set of
\* resources as the application before (no growth, no loss).
C5_ComputeOnlyIdempotent ==
    (probe.fn = "_filter_compute_only" /\ probe.applied >= 2)
    => Range(probe.out) = Range(probe.prev)

\* C5's case: the first application dropped a resource and kept a network interface
\* next to the virtual machine, and the second application has run on that output
C5_Witness ==
    /\ probe.fn = "_filter_compute_only"
    /\ probe.applied = 2
    /\ Range(probe.prev) # Range(probe.input)
    /\ \E i \in 1..Len(probe.out) : probe.out[i].resource_type = T_NIC
    /\ \E i \in 1..Len(probe.out) : probe.out[i].resource_type = T_VM

(***************************************************************************)
(* Python values and dicts.  A value whose Python type the code tests      *)
(* carries the type: [t |-> "str" | "int" | "bool" | "list" | "dict" |     *)
(* "list_of_dict", v |-> ...].  A dict is the sequence of its [key, value] *)
(* entries in insertion order.                                             *)
(***************************************************************************)
PyStr(s) == [t |-> "str", v |-> s]

PyInt(n) == [t |-> "int", v |-> n]

PyBool(b) == [t |-> "bool", v |-> b]

\* isinstance(value, (str, int, float, bool))
IsScalar(value) == value.t \in {"str", "int", "float", "bool"}

\* key in d
DictHas(d, key) == \E i \in 1..Len(d) : d[i].key = key

\* d[key]
DictGet(d, key) == d[CHOOSE i \in 1..Len(d) : d[i].key = key].value

\* d[key] = value
DictSet(d, key, value) ==
    IF DictHas(d, key)
    THEN [i \in 1..Len(d) |-> IF d[i].key = key THEN [key |-> key, value |-> value] ELSE d[i]]
    ELSE Append(d, [key |-> key, value |-> value])

RECURSIVE DictUpdate(_, _)
\* d.update(other)
DictUpdate(d, other) ==
    IF other = <<>> THEN d
    ELSE DictUpdate(DictSet(d, other[1].key, other[1].value), Tail(other))

Digits == "0123456789"

RECURSIVE IntToStr(_)
\* str(n) for n >= 0
IntToStr(n) ==
    IF n < 10 THEN CharAt(Digits, n + 1)
    ELSE IntToStr(n \div 10) \o CharAt(Digits, (n % 10) + 1)

(***************************************************************************)
(* ResourceRanking (core/models.py).                                       *)
(***************************************************************************)
RANKINGS ==
    <<[key |-> "microsoft.network/dnszones", value |-> 1],
      [key |-> "microsoft.network/privatednszones", value |-> 1],
      [key |-> "microsoft.network/publicipaddresses", value |-> 2],
      [key |-> "microsoft.network/loadbalancers", value |-> 3],
      [key |-> "microsoft.redhatopenshift/openshiftclusters", value |-> 4],
      [key |-> "microsoft.containerservice/managedclusters", value |-> 4],
      [key |-> "microsoft.network/virtualnetworks", value |-> 5],
      [key |-> "microsoft.network/privatednszones/virtualnetworklinks", value |-> 5],
      [key |-> "microsoft.network/routetables", value |-> 6],
      [key |-> "microsoft.network/networksecuritygroups", value |-> 6],
      [key |-> "microsoft.network/networkinterfaces", value |-> 7],
      [key |-> "microsoft.compute/sshpublickeys", value |-> 7],
      [key |-> "microsoft.managedidentity/userassignedidentities", value |-> 7],
      [key |-> "microsoft.compute/virtualmachines", value |-> 8],
      [key |-> "microsoft.compute/disks", value |-> 9],
      [key |-> "microsoft.compute/snapshots", value |-> 10],
      [key |-> "microsoft.compute/galleries", value |-> 11],
      [key |-> "microsoft.compute/galleries/images", value |-> 12],
      [key |-> "microsoft.compute/galleries/images/versions", value |-> 13],
      [key |-> "microsoft.storage/storageaccounts", value |-> 14]>>

get_rank(resource_type) ==
    IF DictHas(RANKINGS, StrLower(resource_type))
    THEN DictGet(RANKINGS, StrLower(resource_type))
    ELSE 99

(***************************************************************************)
(* GraphBuilder._build_node_label.  "\\n" is the two characters the code   *)
(* writes for a line break of the label.                                   *)
(***************************************************************************)
\* the bespoke descriptions: lower-cased type -> <<standard, detailed, trailing segment only>>
SpecialLabels ==
    <<[key |-> "microsoft.compute/sshpublickeys",
       value |-> <<"(SSH Public Key)", "Authentication Credential", FALSE, "">>],
      [key |-> "microsoft.compute/galleries",
       value |-> <<"(Compute Gallery)", "Image Repository", FALSE, "">>],
      [key |-> "microsoft.compute/galleries/images",
       value |-> <<"(Gallery Image)", "Image Definition", TRUE, "">>],
      [key |-> "microsoft.compute/galleries/images/versions",
       value |-> <<"(Image Version)", "Versioned Image", TRUE, "v">>],
      [key |-> "microsoft.managedidentity/userassignedidentities",
       value |-> <<"(Managed Identity)", "Authentication Service", FALSE, "">>],
      [key |-> "microsoft.network/privatednszones",
       value |-> <<"(Private DNS Zone)", "Internal DNS Resolution", FALSE, "">>],
      [key |-> "microsoft.network/privatednszones/virtualnetworklinks",
       value |-> <<"(VNet Link)", "DNS-VNet Connection", TRUE, "">>]>>

_build_node_label(name, resource_names, category, resource_type, cfg) ==
    IF resource_type # "" /\ DictHas(SpecialLabels, StrLower(resource_type))
    THEN LET special == DictGet(SpecialLabels, StrLower(resource_type))
             shown == IF special[3] THEN Last(StrSplit(name, "/")) ELSE name
         IN  IF cfg.label_verbosity = 1 THEN shown
             ELSE IF cfg.label_verbosity = 2 THEN special[4] \o shown \o "\\n" \o special[1]
             ELSE special[4] \o shown \o "\\n" \o special[1] \o "\\n" \o special[2]
    ELSE IF cfg.label_verbosity = 1 THEN name
    ELSE IF cfg.label_verbosity = 2 THEN name \o "\\n(" \o category \o ")"
    ELSE IF Len(resource_names) > 1
    THEN name \o "\\n(" \o category \o ")\\n" \o IntToStr(Len(resource_names)) \o " resources"
    ELSE name \o "\\n(" \o category \o ")"

(***************************************************************************)
(* GraphBuilder._group_resources and node synthesis.                       *)
(***************************************************************************)
RECURSIVE GroupFromByType(_, _, _, _)
\* a grouping that keys by the full type string whatever the depth
GroupFromByType(rs, cfg, i, grouped) ==
    IF i > Len(rs) THEN grouped
    ELSE LET key == rs[i].resource_type
             members == IF DictHas(grouped, key) THEN DictGet(grouped, key) ELSE <<>>
         IN  GroupFromByType(rs, cfg, i + 1, DictSet(grouped, key, Append(members, rs[i])))

RECURSIVE GroupFrom(_, _, _, _)
\* grouped after the resources from position i on have been appended to their keys
GroupFrom(rs, cfg, i, grouped) ==
    IF i > Len(rs) THEN grouped
    ELSE LET key == IF cfg.category_depth = 1 THEN rs[i].category ELSE rs[i].resource_type
             members == IF DictHas(grouped, key) THEN DictGet(grouped, key) ELSE <<>>
         IN  GroupFrom(rs, cfg, i + 1, DictSet(grouped, key, Append(members, rs[i])))

_group_resources(rs, cfg) == GroupFrom(rs, cfg, 1, <<>>)

GraphNode(id, name, label, category, resource_type, attributes) ==
    [id |-> id, name |-> name, label |-> label, category |-> category,
     resource_type |-> resource_type, attributes |-> attributes]

_create_group_node(group_key, group_resources, cfg) ==
    LET resource_names == [i \in 1..Len(group_resources) |-> group_resources[i].name]
    IN  GraphNode(
            "group_" \o StrReplace(StrReplace(StrLower(group_key), ".", "_"), "/", "_"),
            group_key,
            _build_node_label(group_key, resource_names, group_resources[1].category,
                              group_key, cfg),
            group_resources[1].category,
            group_key,
            <<[key |-> "resource_count", value |-> PyInt(Len(group_resources))],
              [key |-> "resources", value |-> [t |-> "list", v |-> resource_names]],
              [key |-> "shape", value |-> PyStr("box")],
              [key |-> "style", value |-> PyStr("filled")]>>)

\* the properties _create_resource_node passes through: scalars and lists of dicts
SafeProps(properties) ==
    SelectSeq(properties, LAMBDA e : IsScalar(e.value) \/ e.value.t = "list_of_dict")

_create_resource_node(resource, cfg) ==
    LET base == <<[key |-> "resource_group", value |-> PyStr(resource.resource_group)],
                  [key |-> "location", value |-> PyStr(resource.location)],
                  [key |-> "ranking", value |-> PyInt(get_rank(resource.resource_type))],
                  [key |-> "shape", value |-> PyStr("box")],
                  [key |-> "style", value |-> PyStr("filled")]>>
        powered == IF /\ resource.resource_type = "Microsoft.Compute/virtualMachines"
                      /\ DictHas(resource.properties, "power_state")
                   THEN DictSet(base, "power_state", DictGet(resource.properties, "power_state"))
                   ELSE base
        attributes == IF resource.properties # <<>>
                      THEN DictSet(powered, "properties",
                                   [t |-> "dict", v |-> SafeProps(resource.properties)])
                      ELSE powered
    IN  GraphNode(
            NodeId(resource.category, resource.name, resource.resource_type),
            resource.name,
            _build_node_label(resource.name, <<resource.name>>, resource.category,
                              resource.resource_type, cfg),
            resource.category,
            resource.resource_type,
            attributes)

RECURSIVE NodesFromGroupedAndIndividual(_, _, _)
\* a synthesis that adds the grouped node to the individual nodes of a group
NodesFromGroupedAndIndividual(grouped, cfg, g) ==
    IF g > Len(grouped) THEN <<>>
    ELSE LET group_key == grouped[g].key
             group_resources == grouped[g].value
         IN  (IF cfg.category_depth = 1 /\ Len(group_resources) > 1
              THEN <<_create_group_node(group_key, group_resources, cfg)>>
              ELSE <<>>)
             \o [i \in 1..Len(group_resources) |->
                    _create_resource_node(group_resources[i], cfg)]
             \o NodesFromGroupedAndIndividual(grouped, cfg, g + 1)

RECURSIVE NodesFrom(_, _, _)
\* the nodes of the groups from position g on
NodesFrom(grouped, cfg, g) ==
    IF g > Len(grouped) THEN <<>>
    ELSE LET group_key == grouped[g].key
             group_resources == grouped[g].value
         IN  (IF cfg.category_depth = 1 /\ Len(group_resources) > 1
              THEN <<_create_group_node(group_key, group_resources, cfg)>>
              ELSE [i \in 1..Len(group_resources) |->
                       _create_resource_node(group_resources[i], cfg)])
             \o NodesFrom(grouped, cfg, g + 1)

\* the nodes _create_resource_nodes appends to self.nodes
_create_resource_nodes(grouped, cfg) == NodesFrom(grouped, cfg, 1)

(***************************************************************************)
(* _create_resource_node's id applied to two resources: SpecNodeId.        *)
(***************************************************************************)
IdResources ==
    {AzureResource(n, t, c, "rg1", <<>>, <<>>) :
        n \in {"vm 1", "vm-1", "vm.1", "vm_1", "VM-1", "vm1"},
        t \in {T_Disk, "Microsoft.Storage/disks", T_VM},
        c \in {"Compute", "Storage"}}

InitNodeId ==
    /\ NewBuilder(DefaultConfig)
    /\ probe \in {[fn |-> "_create_resource_node", a |-> a, b |-> b, done |-> FALSE,
                   id_a |-> "", id_b |-> ""] : a \in IdResources, b \in IdResources}

\* _create_resource_node on each of the two resources
CreateResourceNode ==
    /\ probe.fn = "_create_resource_node"
    /\ ~probe.done
    /\ probe' = [probe EXCEPT !.done = TRUE,
                              !.id_a = _create_resource_node(probe.a, config).id,
                              !.id_b = _create_resource_node(probe.b, config).id]
    /\ UNCHANGED <<builder, pc>>

NextNodeId == CreateResourceNode

SpecNodeId == InitNodeId /\ [][NextNodeId]_vars

\* C1: any two resources that differ in name or in type string get different node ids.
C1_NodeIdsCollisionFree ==
    (/\ probe.fn = "_create_resource_node"
     /\ probe.done
     /\ \/ probe.a.name # probe.b.name
        \/ probe.a.resource_type # probe.b.resource_type)
    => probe.id_a # probe.id_b

(***************************************************************************)
(* Edge synthesis: GraphBuilder._create_network_edges.                     *)
(***************************************************************************)
GraphEdge(source, target, label, edge_type, attributes) ==
    [source |-> source, target |-> target, label |-> label, edge_type |-> edge_type,
     attributes |-> attributes]

\* the node id the edge synthesizers compute for a resource
ResourceNodeId(r) == NodeId(r.category, r.name, r.resource_type)

_extract_resource_name_from_id(resource_id) ==
    IF resource_id = "" THEN ""
    ELSE LET parts == StrSplit(resource_id, "/")
         IN  IF Len(parts) >= 9 THEN Last(parts) ELSE resource_id

\* the full resource id _create_network_edges constructs for a resource
FullResourceId(r) ==
    "/subscriptions/" \o r.subscription_id \o "/resourceGroups/" \o r.resource_group
    \o "/providers/" \o r.resource_type \o "/" \o r.name

RECURSIVE ResourceByIdFrom(_, _, _)
\* resource_by_id after the resources from position i on have been entered
ResourceByIdFrom(rs, i, by_id) ==
    IF i > Len(rs) THEN by_id
    ELSE ResourceByIdFrom(rs, i + 1,
            DictSet(DictSet(by_id, FullResourceId(rs[i]), rs[i]),
                    rs[i].name \o "_" \o TypeSuffix(rs[i].resource_type), rs[i]))

\* a lookup by the full resource id only, without the fallback to the name
LookupEndpointByFullId(by_id, endpoint_id) ==
    IF DictHas(by_id, endpoint_id) THEN <<TRUE, DictGet(by_id, endpoint_id)>>
    ELSE <<FALSE, _extract_resource_name_from_id(endpoint_id)>>

\* the lookup of one association endpoint: <<found, resource>>
LookupEndpoint(by_id, endpoint_id) ==
    IF DictHas(by_id, endpoint_id) THEN <<TRUE, DictGet(by_id, endpoint_id)>>
    ELSE LET name == _extract_resource_name_from_id(endpoint_id)
             hits == {i \in 1..Len(by_id) : /\ StartsWith(by_id[i].key, name \o "_")
                                             /\ by_id[i].value.name = name}
         IN  IF hits = {} THEN <<FALSE, name>>
             ELSE <<TRUE, by_id[CHOOSE i \in hits : \A j \in hits : i <= j].value>>

RECURSIVE NetworkEdgesFrom(_, _, _)
\* the association edges of the associations from position i on
NetworkEdgesFrom(associations, by_id, i) ==
    IF i > Len(associations) THEN <<>>
    ELSE LET source == LookupEndpoint(by_id, associations[i].source_id)
             target == LookupEndpoint(by_id, associations[i].target_id)
         IN  (IF source[1] /\ target[1]
              THEN <<GraphEdge(ResourceNodeId(source[2]), ResourceNodeId(target[2]),
                               associations[i].association_type, "association",
                               <<[key |-> "style", value |-> "solid"],
                                 [key |-> "color", value |-> "blue"]>>)>>
              ELSE <<>>)
             \o NetworkEdgesFrom(associations, by_id, i + 1)

\* the edges _create_network_edges appends to self.edges
_create_network_edges(associations, rs) ==
    NetworkEdgesFrom(associations, ResourceByIdFrom(rs, 1, <<>>), 1)

(***************************************************************************)
(* Edge synthesis: GraphBuilder._create_dns_zone_connections.              *)
(***************************************************************************)
\* str.isalnum() for the ASCII letters and digits
IsAlnum(s) ==
    /\ Len(s) > 0
    /\ \A i \in 1..Len(s) :
          \E j \in 1..Len(UpperLetters \o LowerLetters \o Digits) :
             CharAt(UpperLetters \o LowerLetters \o Digits, j) = CharAt(s, i)

\* str.split(): the non-empty parts between blanks
SplitBlanks(s) == SelectSeq(StrSplit(s, " "), LAMBDA part : part # "")

\* '.'.join(parts[1:])
JoinTailWithDots(parts) ==
    IF Len(parts) <= 1 THEN ""
    ELSE LET RECURSIVE Join(_)
             Join(i) == IF i = Len(parts) THEN parts[i] ELSE parts[i] \o "." \o Join(i + 1)
         IN  Join(2)

\* <<name_matches, is_pattern_match>> of one resource against one DNS zone
\* iter(value) succeeds: a for loop over the value, or an `in` test on it, does not end
\* in a TypeError
Iterable(value) == value.t \in {"str", "dict", "list", "list_of_dict"}

\* the items a for loop over the value visits
IterItems(value) ==
    CASE value.t = "str" -> [i \in 1..Len(value.v) |-> PyStr(CharAt(value.v, i))]
      [] value.t = "dict" -> [i \in 1..Len(value.v) |-> PyStr(value.v[i].key)]
      [] OTHER -> value.v

\* needle in container, for a string needle
PyIn(needle, container) ==
    CASE container.t = "str" -> StrContains(container.v, needle)
      [] container.t = "dict" -> DictHas(container.v, needle)
      [] OTHER -> \E i \in 1..Len(container.v) :
                     container.v[i].t = "str" /\ container.v[i].v = needle

\* the loop over dns_domains: "match" when it breaks on a domain that holds the zone's
\* domain, "TypeError" when dns_domains or the domain the loop has reached cannot be
\* searched, "none" when it runs to its end
DomainsScan(dns_domains, dns_zone_domain) ==
    IF ~Iterable(dns_domains) THEN "TypeError"
    ELSE IF dns_zone_domain = "" THEN "none"
    ELSE LET items == IterItems(dns_domains)
             decisive == {d \in 1..Len(items) :
                             ~Iterable(items[d]) \/ PyIn(dns_zone_domain, items[d])}
         IN  IF decisive = {} THEN "none"
             ELSE IF Iterable(items[CHOOSE d \in decisive : \A e \in decisive : d <= e])
             THEN "match"
             ELSE "TypeError"

\* the matching of the resource against the zone raises
DnsZoneRaises(dns_zone, resource) ==
    /\ resource.resource_type = "Microsoft.RedHatOpenShift/OpenShiftClusters"
    /\ DictHas(resource.properties, "openshift_dns_domains")
    /\ DomainsScan(DictGet(resource.properties, "openshift_dns_domains"),
                   JoinTailWithDots(StrSplit(dns_zone.name, "."))) = "TypeError"

DnsZoneMatch(dns_zone, resource) ==
    IF /\ resource.resource_type = "Microsoft.RedHatOpenShift/OpenShiftClusters"
       /\ DictHas(resource.properties, "openshift_dns_domains")
    THEN <<DomainsScan(DictGet(resource.properties, "openshift_dns_domains"),
                       JoinTailWithDots(StrSplit(dns_zone.name, "."))) = "match",
           FALSE>>
    ELSE LET base_name == StrSplit(dns_zone.name, ".")[1]
             zone_lower == StrLower(dns_zone.name)
             name_lower == StrLower(resource.name)
             zone_parts == SplitBlanks(StrReplace(zone_lower, ".", " "))
             name_matches ==
                 \/ StrContains(name_lower, StrLower(base_name))
                 \/ \E part \in {"hypershift", "mgmt"} :
                       StrContains(zone_lower, part) /\ StrContains(name_lower, part)
                 \/ \E p \in 1..Len(zone_parts) :
                       /\ Len(zone_parts[p]) >= 4
                       /\ IsAlnum(zone_parts[p])
                       /\ StrContains(name_lower, zone_parts[p])
         IN  <<name_matches, name_matches>>

DnsServedTypes ==
    {"Microsoft.Network/virtualNetworks", "Microsoft.Compute/virtualMachines",
     "Microsoft.Network/loadBalancers", "Microsoft.RedHatOpenShift/OpenShiftClusters",
     "Microsoft.ContainerService/managedClusters"}

\* the edge from a DNS zone to one resource it serves
DnsEdge(dns_zone, resource, is_pattern_match) ==
    GraphEdge(ResourceNodeId(dns_zone), ResourceNodeId(resource),
              IF is_pattern_match THEN "provides DNS for (derived)" ELSE "provides DNS for",
              "dns_service",
              <<[key |-> "style", value |-> IF is_pattern_match THEN "dotted" ELSE "dashed"],
                [key |-> "color", value |-> IF is_pattern_match THEN "orange" ELSE "darkgreen"],
                [key |-> "penwidth", value |-> "2"],
                [key |-> "weight", value |-> "2"],
                [key |-> "minlen", value |-> "2"]>>)

RECURSIVE DnsEdgesFrom(_, _, _, _)
\* the edges of the DNS zones from position z on; k walks the resources
DnsEdgesFrom(rs, dns_zones, z, k) ==
    IF z > Len(dns_zones) THEN <<>>
    ELSE IF k > Len(rs) THEN DnsEdgesFrom(rs, dns_zones, z + 1, 1)
    ELSE LET match == DnsZoneMatch(dns_zones[z], rs[k])
         IN  (IF /\ rs[k] # dns_zones[z]
                 /\ match[1]
                 /\ rs[k].resource_type \in DnsServedTypes
              THEN <<DnsEdge(dns_zones[z], rs[k], match[2])>>
              ELSE <<>>)
             \o DnsEdgesFrom(rs, dns_zones, z, k + 1)

\* the edges _create_dns_zone_connections appends to self.edges, and the exception it
\* raised: the zones before the one whose matching raises have their edges
_create_dns_zone_connections(rs) ==
    LET dns_zones == SelectSeq(rs, LAMBDA r : r.resource_type = "Microsoft.Network/dnszones")
        raising == {z \in 1..Len(dns_zones) :
                       \E k \in 1..Len(rs) : DnsZoneRaises(dns_zones[z], rs[k])}
    IN  IF raising = {}
        THEN [edges |-> DnsEdgesFrom(rs, dns_zones, 1, 1), raised |-> None]
        ELSE [edges |-> DnsEdgesFrom(rs,
                                     SubSeq(dns_zones, 1,
                                            (CHOOSE z \in raising :
                                                \A y \in raising : z <= y) - 1),
                                     1, 1),
              raised |-> "TypeError"]

(***************************************************************************)
(* Edge synthesis: GraphBuilder._create_dependency_edges.                  *)
(***************************************************************************)
\* the edge_attrs dict of a type-pair branch
EdgeAttrs(style, color, penwidth, weight, minlen) ==
    <<[key |-> "style", value |-> style], [key |-> "color", value |-> color],
      [key |-> "penwidth", value |-> penwidth], [key |-> "weight", value |-> weight],
      [key |-> "minlen", value |-> minlen]>>

StyleRow(source, target, attributes, label) ==
    [source |-> source, target |-> target, attributes |-> attributes, label |-> label]

\* the if/elif chain over (resource type, dependency type), in the chain's order; the
\* virtual machine -> storage account branch is DependencyStyle's own case
DependencyStyleTable ==
    <<StyleRow({"Microsoft.Compute/virtualMachines"}, "Microsoft.Compute/disks",
               EdgeAttrs("solid", "darkgreen", "2", "10", "1"), "attached"),
      StyleRow({"Microsoft.Network/privateEndpoints"}, "Microsoft.Network/networkInterfaces",
               EdgeAttrs("solid", "purple", "2", "8", "1"), "uses"),
      StyleRow({"Microsoft.Network/privateLinkServices"}, "Microsoft.Network/networkInterfaces",
               EdgeAttrs("solid", "orange", "2", "8", "1"), "uses"),
      StyleRow({"Microsoft.Network/privateLinkServices"}, "Microsoft.Network/loadBalancers",
               EdgeAttrs("solid", "blue", "2", "9", "1"), "fronts"),
      StyleRow({"Microsoft.Network/privateEndpoints"}, "Microsoft.Network/virtualNetworks/subnets",
               EdgeAttrs("solid", "cyan", "2", "5", "1"), "deployed in"),
      StyleRow({"Microsoft.Network/networkInterfaces"}, "Microsoft.Network/virtualNetworks/subnets",
               Append(EdgeAttrs("dashed", "lime", "2", "3", "1"),
                      [key |-> "constraint", value |-> "true"]), "in"),
      StyleRow({"Internet/Gateway"}, "Microsoft.Network/publicIPAddresses",
               EdgeAttrs("solid", "yellow", "3", "10", "1"), "connected"),
      StyleRow({"Microsoft.Network/networkSecurityGroups"},
               "Microsoft.Network/virtualNetworks/subnets",
               EdgeAttrs("solid", "red", "2", "7", "1"), "secures"),
      StyleRow({"Microsoft.Network/virtualNetworks"}, "Microsoft.Network/virtualNetworks/subnets",
               EdgeAttrs("solid", "darkblue", "2", "8", "1"), "contains"),
      StyleRow({"Microsoft.Network/virtualNetworks"}, "Microsoft.Network/privateEndpoints",
               EdgeAttrs("solid", "darkblue", "2", "8", "1"), "contains"),
      StyleRow({"Microsoft.RedHatOpenShift/OpenShiftClusters"},
               "Microsoft.Network/virtualNetworks/subnets",
               EdgeAttrs("solid", "darkred", "3", "9", "1"), "deployed in"),
      StyleRow({"Microsoft.RedHatOpenShift/OpenShiftClusters"}, "Microsoft.Network/virtualNetworks",
               EdgeAttrs("solid", "darkred", "3", "9", "1"), "uses network"),
      StyleRow({"Microsoft.RedHatOpenShift/OpenShiftClusters"}, "Microsoft.Storage/storageAccounts",
               EdgeAttrs("solid", "darkred", "2", "6", "1"), "uses storage"),
      StyleRow({"Microsoft.Compute/virtualMachines"}, "Microsoft.Compute/sshPublicKeys",
               EdgeAttrs("solid", "gold", "2", "7", "1"), "authenticates"),
      StyleRow({"Microsoft.Compute/galleries/images"}, "Microsoft.Compute/galleries",
               EdgeAttrs("solid", "purple", "2", "8", "1"), "contained in"),
      StyleRow({"Microsoft.Compute/galleries/images/versions"},
               "Microsoft.Compute/galleries/images",
               EdgeAttrs("solid", "purple", "2", "8", "1"), "version of"),
      StyleRow({"Microsoft.Compute/virtualMachines", "Microsoft.Compute/virtualMachineScaleSets",
                "Microsoft.ContainerService/managedClusters",
                "Microsoft.RedHatOpenShift/OpenShiftClusters", "Microsoft.Web/sites"},
               "Microsoft.ManagedIdentity/userAssignedIdentities",
               EdgeAttrs("solid", "teal", "2", "6", "1"), "uses identity"),
      StyleRow({"Microsoft.Network/privateDnsZones/virtualNetworkLinks"},
               "Microsoft.Network/privateDnsZones",
               EdgeAttrs("solid", "darkgreen", "2", "8", "1"), "links to"),
      StyleRow({"Microsoft.Network/privateDnsZones/virtualNetworkLinks"},
               "Microsoft.Network/virtualNetworks",
               EdgeAttrs("solid", "darkgreen", "2", "7", "1"), "connects to"),
      StyleRow({"Microsoft.Network/privateDnsZones"}, "Microsoft.Network/virtualNetworks",
               EdgeAttrs("dashed", "darkgreen", "2", "5", "2"), "provides DNS for"),
      StyleRow({"Microsoft.Network/virtualNetworks/subnets"}, "Microsoft.Network/routeTables",
               EdgeAttrs("solid", "orange", "2", "6", "1"), "uses routing"),
      StyleRow({"Microsoft.Network/dnszones"}, "Microsoft.Network/loadBalancers",
               EdgeAttrs("solid", "navy", "2", "5", "2"), "resolves to"),
      StyleRow({"Microsoft.Network/dnszones"}, "Microsoft.Network/publicIPAddresses",
               EdgeAttrs("solid", "navy", "2", "5", "2"), "resolves to"),
      StyleRow({"Microsoft.Network/dnszones"}, "Microsoft.Compute/virtualMachines",
               EdgeAttrs("dashed", "navy", "2", "4", "2"), "serves API for")>>

\* Python truthiness of an optional description
Truthy(description) == description # None /\ description # ""

\* a chain that has only its final else branch for explicit dependencies
DependencyStyleGeneric(resource_type, dep_resource_type, dependency_type, description) ==
    <<<<[key |-> "style", value |-> "dashed"], [key |-> "color", value |-> "red"]>>,
      "depends on">>

\* a chain whose final else branch styles every dependency as an explicit one
DependencyStyleWithoutDerived(resource_type, dep_resource_type, dependency_type, description) ==
    IF /\ resource_type = "Microsoft.Compute/virtualMachines"
       /\ dep_resource_type = "Microsoft.Storage/storageAccounts"
    THEN <<EdgeAttrs("dashed", "brown", "2", "4", "1"), "stores data">>
    ELSE LET rows == SelectSeq(DependencyStyleTable,
                               LAMBDA row : /\ resource_type \in row.source
                                            /\ dep_resource_type = row.target)
         IN  IF rows # <<>> THEN <<rows[1].attributes, rows[1].label>>
             ELSE <<<<[key |-> "style", value |-> "dashed"],
                      [key |-> "color", value |-> "red"]>>, "depends on">>

\* <<edge_attrs, label>> of one resolved dependency
DependencyStyle(resource_type, dep_resource_type, dependency_type, description) ==
    IF /\ resource_type = "Microsoft.Compute/virtualMachines"
       /\ dep_resource_type = "Microsoft.Storage/storageAccounts"
    THEN IF dependency_type = "derived"
         THEN <<EdgeAttrs("dotted", "orange", "2", "3", "1"),
                IF Truthy(description) THEN "derived storage (" \o description \o ")"
                ELSE "derived storage">>
         ELSE <<EdgeAttrs("dashed", "brown", "2", "4", "1"), "stores data">>
    ELSE LET rows == SelectSeq(DependencyStyleTable,
                               LAMBDA row : /\ resource_type \in row.source
                                            /\ dep_resource_type = row.target)
         IN  IF rows # <<>> THEN <<rows[1].attributes, rows[1].label>>
             ELSE IF dependency_type = "derived"
             THEN <<<<[key |-> "style", value |-> "dotted"],
                      [key |-> "color", value |-> "orange"],
                      [key |-> "penwidth", value |-> "1"]>>,
                    IF Truthy(description) THEN "derived (" \o description \o ")"
                    ELSE "derived">>
             ELSE <<<<[key |-> "style", value |-> "dashed"],
                      [key |-> "color", value |-> "red"]>>, "depends on">>

RECURSIVE ResourceByNameFrom(_, _, _)
\* {r.name: r for r in resources}: a later resource replaces an earlier one of its name
ResourceByNameFrom(rs, i, by_name) ==
    IF i > Len(rs) THEN by_name
    ELSE ResourceByNameFrom(rs, i + 1, DictSet(by_name, rs[i].name, rs[i]))

\* a guard that takes every dependency name for a name of the collection
DepNameAssumedPresent(resource_by_name, dep_name) == TRUE

\* the guard "if dep_name in resource_by_name"
DepNameInResourceByName(resource_by_name, dep_name) == DictHas(resource_by_name, dep_name)

\* the three values the loop reads off a dependency in either of its forms
DependencyFields(dependency) ==
    IF dependency.form = "str"
    THEN [dep_name |-> dependency.target_name, dependency_type |-> "explicit",
          description |-> None]
    ELSE [dep_name |-> dependency.target_name,
          dependency_type |-> dependency.dependency_type,
          description |-> dependency.description]

\* the edge of one resolved dependency
DependencyEdge(resource, dep_resource, dep) ==
    LET styled == DependencyStyle(resource.resource_type, dep_resource.resource_type,
                                  dep.dependency_type, dep.description)
    IN  GraphEdge(ResourceNodeId(resource),
                  NodeId(dep_resource.category, dep.dep_name, dep_resource.resource_type),
                  styled[2], "dependency", styled[1])

RECURSIVE DependencyEdgesFrom(_, _, _, _, _)
\* the loop from dependency d of resource i on; raised is the exception that ended it
DependencyEdgesFrom(rs, resource_by_name, i, d, acc) ==
    IF i > Len(rs) THEN [edges |-> acc, raised |-> None]
    ELSE IF d > Len(rs[i].dependencies)
    THEN DependencyEdgesFrom(rs, resource_by_name, i + 1, 1, acc)
    ELSE LET dep == DependencyFields(rs[i].dependencies[d])
         IN  IF DepNameInResourceByName(resource_by_name, dep.dep_name)
             THEN IF ~DictHas(resource_by_name, dep.dep_name)
                  THEN [edges |-> acc, raised |-> "KeyError"]
                  ELSE DependencyEdgesFrom(rs, resource_by_name, i, d + 1,
                           Append(acc, DependencyEdge(rs[i],
                                                      DictGet(resource_by_name, dep.dep_name),
                                                      dep)))
             ELSE DependencyEdgesFrom(rs, resource_by_name, i, d + 1, acc)

\* what _create_dependency_edges appends to self.edges, and the exception it raised
_create_dependency_edges(rs) ==
    LET dns == _create_dns_zone_connections(rs)
    IN  IF dns.raised # None THEN dns
        ELSE DependencyEdgesFrom(rs, ResourceByNameFrom(rs, 1, <<>>), 1, 1, dns.edges)

(***************************************************************************)
(* GraphBuilder._filter_redundant_edges and _is_resource_type.             *)
(***************************************************************************)
_is_resource_type(node, resource_type) ==
    StrLower(node.resource_type) = StrLower(resource_type)

\* tuple(sorted([edge.source, edge.target])): the same key for both directions
PairKey(edge) == {edge.source, edge.target}

RECURSIVE EdgePairsFrom(_, _, _)
\* first pass: the edges from position i on appended to their pair's list
EdgePairsFrom(es, i, edge_pairs) ==
    IF i > Len(es) THEN edge_pairs
    ELSE LET pair_edges == IF DictHas(edge_pairs, PairKey(es[i]))
                           THEN DictGet(edge_pairs, PairKey(es[i])) ELSE <<>>
         IN  EdgePairsFrom(es, i + 1,
                           DictSet(edge_pairs, PairKey(es[i]), Append(pair_edges, es[i])))

\* next((node for node in self.nodes if node.id == id), None); None is the empty tuple
FindNode(ns, id) ==
    LET hits == SelectSeq(ns, LAMBDA node : node.id = id)
    IN  IF hits = <<>> THEN <<>> ELSE <<hits[1]>>

NicToVm(source_node, target_node) ==
    /\ _is_resource_type(source_node, "microsoft.network/networkinterfaces")
    /\ _is_resource_type(target_node, "microsoft.compute/virtualmachines")

NicToPublicIp(source_node, target_node) ==
    /\ _is_resource_type(source_node, "microsoft.network/networkinterfaces")
    /\ _is_resource_type(target_node, "microsoft.network/publicipaddresses")

\* a preference that keeps the pair's first edge whatever its direction
KeepFirstOfPair(edge1, edge2, s1, t1, s2, t2) == <<edge1>>

\* the edges kept of a pair of two edges whose four end nodes were found
PreferredOfPair(edge1, edge2, s1, t1, s2, t2) ==
    IF NicToVm(s1, t1) THEN <<edge1>>
    ELSE IF NicToVm(s2, t2) THEN <<edge2>>
    ELSE IF NicToPublicIp(s1, t1) THEN <<edge1>>
    ELSE IF NicToPublicIp(s2, t2) THEN <<edge2>>
    ELSE <<edge1, edge2>>

\* second pass on one pair's edges
FilterPair(pair_edges, ns) ==
    IF Len(pair_edges) = 2
    THEN LET s1 == FindNode(ns, pair_edges[1].source)
             t1 == FindNode(ns, pair_edges[1].target)
             s2 == FindNode(ns, pair_edges[2].source)
             t2 == FindNode(ns, pair_edges[2].target)
         IN  IF <<>> \in {s1, t1, s2, t2} THEN pair_edges
             ELSE PreferredOfPair(pair_edges[1], pair_edges[2],
                                  s1[1], t1[1], s2[1], t2[1])
    ELSE pair_edges

RECURSIVE FilterPairsFrom(_, _, _)
FilterPairsFrom(edge_pairs, ns, p) ==
    IF p > Len(edge_pairs) THEN <<>>
    ELSE FilterPair(edge_pairs[p].value, ns) \o FilterPairsFrom(edge_pairs, ns, p + 1)

_filter_redundant_edges(es, ns) == FilterPairsFrom(EdgePairsFrom(es, 1, <<>>), ns, 1)

(***************************************************************************)
(* The networkx DiGraph the builder fills: nodes is the node dict (id ->   *)
(* attribute dict) and edges the edge list, both in insertion order.       *)
(***************************************************************************)
EmptyGraph == [nodes |-> <<>>, edges |-> <<>>]

\* node_id in graph
HasNode(g, id) == DictHas(g.nodes, id)

\* graph.add_node(id, **attrs): a known id keeps its place and takes the new attributes
add_node(g, id, attrs) ==
    [g EXCEPT !.nodes = DictSet(g.nodes, id,
                                IF HasNode(g, id) THEN DictUpdate(DictGet(g.nodes, id), attrs)
                                ELSE attrs)]

\* graph.add_edge(u, v, **attrs): missing end nodes are created bare, and an edge
\* already there from u to v takes the new attributes instead of being added again
add_edge(g, u, v, attrs) ==
    LET with_u == IF HasNode(g, u) THEN g ELSE add_node(g, u, <<>>)
        with_v == IF HasNode(with_u, v) THEN with_u ELSE add_node(with_u, v, <<>>)
        known == \E i \in 1..Len(g.edges) : g.edges[i].source = u /\ g.edges[i].target = v
    IN  [with_v EXCEPT !.edges =
            IF known
            THEN [i \in 1..Len(g.edges) |->
                     IF g.edges[i].source = u /\ g.edges[i].target = v
                     THEN [g.edges[i] EXCEPT !.data = DictUpdate(@, attrs)]
                     ELSE g.edges[i]]
            ELSE Append(g.edges, [source |-> u, target |-> v, data |-> attrs])]

RECURSIVE EdgesBySource(_, _)
\* graph.edges(data=True): by source node in node order, each node's edges in the
\* order they were added
EdgesBySource(g, n) ==
    IF n > Len(g.nodes) THEN <<>>
    ELSE SelectSeq(g.edges, LAMBDA e : e.source = g.nodes[n].key) \o EdgesBySource(g, n + 1)

graph_edges(g) == EdgesBySource(g, 1)

(***************************************************************************)
(* GraphBuilder._populate_networkx_graph.                                  *)
(***************************************************************************)
essential_props ==
    {"is_external_dependency", "is_placeholder", "is_cross_tenant", "access_note",
     "tenant_note", "hide_provider", "vm_size", "os_type", "os_sku", "os_disk_size_gb",
     "computer_name", "admin_username", "os_publisher", "os_offer",
     "network_interface_count", "disk_size_gb", "sku", "disk_state", "performance_tier",
     "encryption_enabled", "kind", "access_tier", "https_only", "private_ip",
     "ip_allocation", "has_public_ip", "public_ip_name", "subnet_name", "vnet_name",
     "nsg_name", "accelerated_networking", "ip_address", "allocation_method", "dns_label",
     "fqdn", "associated_resource", "address_space", "subnet_count", "subnet_names",
     "custom_dns", "address_prefix", "external_pls_connections"}

\* the attributes of a node that are neither 'properties' nor a dict or a list
safe_attributes(node) ==
    SelectSeq(node.attributes,
              LAMBDA e : e.key # "properties" /\ e.value.t \notin {"dict", "list", "list_of_dict"})

\* the prop_<key> entries of a node's essential scalar properties
PropEntries(node) ==
    IF DictHas(node.attributes, "properties")
    THEN LET kept == SelectSeq(DictGet(node.attributes, "properties").v,
                               LAMBDA e : e.key \in essential_props /\ IsScalar(e.value))
         IN  [i \in 1..Len(kept) |-> [key |-> "prop_" \o kept[i].key, value |-> kept[i].value]]
    ELSE <<>>

RECURSIVE AddNodesFrom(_, _, _)
AddNodesFrom(g, ns, i) ==
    IF i > Len(ns) THEN g
    ELSE LET attrs == DictUpdate(<<[key |-> "label", value |-> PyStr(ns[i].label)],
                                   [key |-> "name", value |-> PyStr(ns[i].name)],
                                   [key |-> "category", value |-> PyStr(ns[i].category)],
                                   [key |-> "resource_type",
                                    value |-> PyStr(ns[i].resource_type)]>>,
                                 safe_attributes(ns[i]))
             added == add_node(g, ns[i].id, attrs)
         IN  AddNodesFrom([added EXCEPT !.nodes =
                              DictSet(@, ns[i].id,
                                      DictUpdate(DictGet(@, ns[i].id), PropEntries(ns[i])))],
                          ns, i + 1)

RECURSIVE AddEdgesFrom(_, _, _)
AddEdgesFrom(g, es, i) ==
    IF i > Len(es) THEN g
    ELSE AddEdgesFrom(add_edge(g, es[i].source, es[i].target,
                               DictUpdate(<<[key |-> "label", value |-> es[i].label],
                                            [key |-> "edge_type", value |-> es[i].edge_type]>>,
                                          es[i].attributes)),
                      es, i + 1)

\* self.graph after _populate_networkx_graph
_populate_networkx_graph(g, ns, es) ==
    AddEdgesFrom(AddNodesFrom(g, ns, 1), _filter_redundant_edges(es, ns), 1)

(***************************************************************************)
(* GraphBuilder._create_subgraphs.                                         *)
(***************************************************************************)
RECURSIVE RgGroupsFrom(_, _, _)
\* rg_groups: the resources other than the Internet gateway by resource group
RgGroupsFrom(rs, i, rg_groups) ==
    IF i > Len(rs) THEN rg_groups
    ELSE IF StrLower(rs[i].resource_type) # "internet/gateway"
    THEN LET members == IF DictHas(rg_groups, rs[i].resource_group)
                        THEN DictGet(rg_groups, rs[i].resource_group) ELSE <<>>
         IN  RgGroupsFrom(rs, i + 1,
                          DictSet(rg_groups, rs[i].resource_group, Append(members, rs[i])))
    ELSE RgGroupsFrom(rs, i + 1, rg_groups)

\* the ids of a group's resources that are nodes of the graph
SubgraphNodes(rg_resources, g) ==
    LET ids == [i \in 1..Len(rg_resources) |-> ResourceNodeId(rg_resources[i])]
    IN  SelectSeq(ids, LAMBDA node_id : HasNode(g, node_id))

RECURSIVE SubgraphsFrom(_, _, _, _)
SubgraphsFrom(rg_groups, g, i, subs) ==
    IF i > Len(rg_groups) THEN subs
    ELSE LET subgraph_nodes == SubgraphNodes(rg_groups[i].value, g)
         IN  SubgraphsFrom(rg_groups, g, i + 1,
                 IF subgraph_nodes # <<>>
                 THEN DictSet(subs, "cluster_" \o rg_groups[i].key,
                              [nodes |-> subgraph_nodes,
                               label |-> "Resource Group: " \o rg_groups[i].key,
                               style |-> "filled", fillcolor |-> "lightgray",
                               fontsize |-> "12"])
                 ELSE subs)

\* self.subgraphs after _create_subgraphs; subs is self.subgraphs before it
_create_subgraphs(rs, g, subs) == SubgraphsFrom(RgGroupsFrom(rs, 1, <<>>), g, 1, subs)

(***************************************************************************)
(* DOTGenerator (visualization/dot_generator.py).  The document is the     *)
(* sequence of its statements; a statement is a record of the fields the   *)
(* emitter writes into the statement's text.                               *)
(***************************************************************************)
\* node_data.get(key, default) for a string attribute
GetStr(node_data, key, default) ==
    IF DictHas(node_data, key) THEN DictGet(node_data, key).v ELSE default

THEMES ==
    <<[key |-> "light", value |-> [background_color |-> "white", node_color |-> "lightblue",
                                   edge_color |-> "black", font_color |-> "black"]],
      [key |-> "dark", value |-> [background_color |-> "black", node_color |-> "darkgray",
                                  edge_color |-> "white", font_color |-> "black"]],
      [key |-> "neon", value |-> [background_color |-> "black", node_color |-> "cyan",
                                  edge_color |-> "magenta", font_color |-> "yellow"]]>>

\* the attributes _format_node copies after the label: all but the processed ones
CustomNodeAttributes(node_data) ==
    SelectSeq(node_data,
              LAMBDA e : e.key \notin {"label", "shape", "style", "name", "category",
                                       "resource_type", "fillcolor", "fontname", "fontcolor"})

\* the node statement: its id, the name and type its label is rendered from, and the
\* custom attributes; the markup of the label itself is left out
_format_node(node_id, node_data, cfg) ==
    [stmt |-> "node", id |-> node_id,
     name |-> GetStr(node_data, "name", node_id),
     resource_type |-> GetStr(node_data, "resource_type", ""),
     verbosity |-> cfg.label_verbosity,
     show_power_state |-> cfg.show_power_state,
     theme |-> cfg.theme,
     attributes |-> CustomNodeAttributes(node_data)]

priority_order ==
    <<[key |-> "microsoft.network/publicipaddresses", value |-> 1],
      [key |-> "microsoft.network/networksecuritygroups", value |-> 2],
      [key |-> "microsoft.network/networkinterfaces", value |-> 3],
      [key |-> "microsoft.network/virtualnetworks/subnets", value |-> 4],
      [key |-> "microsoft.network/virtualnetworks", value |-> 5],
      [key |-> "microsoft.compute/virtualmachines", value |-> 6],
      [key |-> "microsoft.compute/virtualmachinescalesets", value |-> 6],
      [key |-> "microsoft.containerservice/managedclusters", value |-> 6],
      [key |-> "microsoft.redhatopenshift/openshiftclusters", value |-> 6],
      [key |-> "microsoft.compute/disks", value |-> 7],
      [key |-> "microsoft.storage/storageaccounts", value |-> 7],
      [key |-> "microsoft.compute/sshpublickeys", value |-> 8],
      [key |-> "microsoft.managedidentity/userassignedidentities", value |-> 8],
      [key |-> "microsoft.compute/galleries", value |-> 8],
      [key |-> "microsoft.compute/galleries/images", value |-> 8],
      [key |-> "microsoft.compute/galleries/images/versions", value |-> 8]>>

DefaultPriority == 99

\* priority_order.get(resource_type, 99) of a node's lower-cased type
PriorityOf(node_data) ==
    LET resource_type == StrLower(GetStr(node_data, "resource_type", ""))
    IN  IF DictHas(priority_order, resource_type) THEN DictGet(priority_order, resource_type)
        ELSE DefaultPriority

RECURSIVE PriorityGroupsFrom(_, _, _, _)
\* priority_groups: the cluster's nodes that are in the graph, by priority
PriorityGroupsFrom(node_ids, g, i, priority_groups) ==
    IF i > Len(node_ids) THEN priority_groups
    ELSE IF HasNode(g, node_ids[i])
    THEN LET node_data == DictGet(g.nodes, node_ids[i])
             priority == PriorityOf(node_data)
             group_nodes == IF DictHas(priority_groups, priority)
                            THEN DictGet(priority_groups, priority) ELSE <<>>
         IN  PriorityGroupsFrom(node_ids, g, i + 1,
                 DictSet(priority_groups, priority,
                         Append(group_nodes, <<node_ids[i], node_data>>)))
    ELSE PriorityGroupsFrom(node_ids, g, i + 1, priority_groups)

RECURSIVE SortedSeq(_)
\* sorted(S) for a set of integers
SortedSeq(S) ==
    IF S = {} THEN <<>>
    ELSE LET least == CHOOSE x \in S : \A y \in S : x <= y
         IN  <<least>> \o SortedSeq(S \ {least})

\* sorted(priority_groups.keys())
SortedPriorities(priority_groups) ==
    SortedSeq({priority_groups[i].key : i \in 1..Len(priority_groups)})

StorageTypes == {"microsoft.compute/disks", "microsoft.storage/storageaccounts"}

\* a directive that lists every node of the group, storage included
RankedNodeIdsAll(group_nodes) == [i \in 1..Len(group_nodes) |-> group_nodes[i][1]]

\* node_ids of the same-rank directive: the group's nodes that are not storage
RankedNodeIds(group_nodes) ==
    LET kept == SelectSeq(group_nodes,
                          LAMBDA n : StrLower(GetStr(n[2], "resource_type", ""))
                                         \notin StorageTypes)
    IN  [i \in 1..Len(kept) |-> kept[i][1]]

RECURSIVE PriorityBlocksFrom(_, _, _, _)
\* per priority in ascending order: the comment, the node statements, the directive
PriorityBlocksFrom(priority_groups, priorities, p, cfg) ==
    IF p > Len(priorities) THEN <<>>
    ELSE LET group_nodes == DictGet(priority_groups, priorities[p])
             node_ids == RankedNodeIds(group_nodes)
         IN  <<[stmt |-> "comment", text |-> "Priority resources",
                priority |-> priorities[p]]>>
             \o [i \in 1..Len(group_nodes) |->
                    _format_node(group_nodes[i][1], group_nodes[i][2], cfg)]
             \o (IF node_ids # <<>>
                 THEN <<[stmt |-> "rank", rank |-> "same", ids |-> node_ids]>>
                 ELSE <<>>)
             \o PriorityBlocksFrom(priority_groups, priorities, p + 1, cfg)

\* all_priority_groups: the first node of every priority group, in ascending priority
all_priority_groups(priority_groups) ==
    LET priorities == SortedPriorities(priority_groups)
    IN  [p \in 1..Len(priorities) |->
            <<priorities[p], DictGet(priority_groups, priorities[p])[1][1]>>]

\* ordering edges drawn from every group to the first group
OrderingEdgesToFirst(representatives) ==
    IF Len(representatives) > 1
    THEN [i \in 1..(Len(representatives) - 1) |->
             [stmt |-> "edge", source |-> representatives[i + 1][2],
              target |-> representatives[1][2],
              attributes |-> <<"style=invis", "weight=100">>]]
    ELSE <<>>

\* the invisible ordering edges between consecutive priority groups
OrderingEdges(representatives) ==
    IF Len(representatives) > 1
    THEN [i \in 1..(Len(representatives) - 1) |->
             [stmt |-> "edge", source |-> representatives[i][2],
              target |-> representatives[i + 1][2],
              attributes |-> <<"style=invis", "weight=100">>]]
    ELSE <<>>

\* the cluster's nodes of all priority groups, in ascending priority
RECURSIVE GroupNodesInOrder(_, _, _)
GroupNodesInOrder(priority_groups, priorities, p) ==
    IF p > Len(priorities) THEN <<>>
    ELSE DictGet(priority_groups, priorities[p])
         \o GroupNodesInOrder(priority_groups, priorities, p + 1)

\* "storage belongs to this VM", on the lower-cased names
StorageAligned(vm_name, storage_name) ==
    LET vm_clean == StrLower(StrReplace(StrReplace(vm_name, "-", ""), "_", ""))
        storage_clean == StrLower(StrReplace(StrReplace(storage_name, "-", ""), "_", ""))
    IN  \/ vm_name = storage_name
        \/ vm_clean = storage_clean
        \/ StrContains(storage_clean, vm_clean)
        \/ StartsWith(storage_clean, vm_clean)
        \/ (Len(vm_clean) >= 4 /\ StrContains(storage_clean, StrPrefix(vm_clean, 4)))

RECURSIVE VmStorageEdgesFrom(_, _, _)
\* the invisible edges from each virtual machine to the storage aligned with it
VmStorageEdgesFrom(vm_nodes, storage_nodes, v) ==
    IF v > Len(vm_nodes) THEN <<>>
    ELSE LET vm_name == StrLower(GetStr(vm_nodes[v][2], "name", ""))
             aligned_storage ==
                 SelectSeq(storage_nodes,
                           LAMBDA n : StorageAligned(vm_name,
                                                     StrLower(GetStr(n[2], "name", ""))))
         IN  [i \in 1..Len(aligned_storage) |->
                 [stmt |-> "edge", source |-> vm_nodes[v][1],
                  target |-> aligned_storage[i][1],
                  attributes |-> <<"style=invis", "weight=1000", "minlen=1">>]]
             \o VmStorageEdgesFrom(vm_nodes, storage_nodes, v + 1)

VmStorageEdges(priority_groups) ==
    LET all_nodes == GroupNodesInOrder(priority_groups, SortedPriorities(priority_groups), 1)
        TypeOf(n) == StrLower(GetStr(n[2], "resource_type", ""))
    IN  VmStorageEdgesFrom(
            SelectSeq(all_nodes, LAMBDA n : TypeOf(n) = "microsoft.compute/virtualmachines"),
            SelectSeq(all_nodes, LAMBDA n : TypeOf(n) \in StorageTypes), 1)

\* subgraph_name.replace("cluster_", "")
CleanSubgraphName(subgraph_name) == StrReplace(subgraph_name, "cluster_", "")

\* the statements of one resource group: its title node and its cluster block
ClusterBlock(subgraph_name, subgraph_data, g, cfg) ==
    LET clean_subgraph_name == CleanSubgraphName(subgraph_name)
        priority_groups == PriorityGroupsFrom(subgraph_data.nodes, g, 1, <<>>)
    IN  <<[stmt |-> "node", id |-> "title_" \o clean_subgraph_name,
           label |-> subgraph_data.label, shape |-> "plaintext",
           fontcolor |-> DictGet(THEMES, cfg.theme).font_color],
          [stmt |-> "subgraph", name |-> "cluster_" \o clean_subgraph_name, label |-> "",
           style |-> subgraph_data.style, fillcolor |-> subgraph_data.fillcolor,
           fontcolor |-> DictGet(THEMES, cfg.theme).font_color, rankdir |-> "LR"]>>
        \o PriorityBlocksFrom(priority_groups, SortedPriorities(priority_groups), 1, cfg)
        \o OrderingEdges(all_priority_groups(priority_groups))
        \o <<[stmt |-> "comment", text |-> "VM-Storage inline horizontal placement"]>>
        \o VmStorageEdges(priority_groups)
        \o <<[stmt |-> "end", name |-> "cluster_" \o clean_subgraph_name]>>

RECURSIVE ClusterBlocksFrom(_, _, _, _)
ClusterBlocksFrom(subs, g, cfg, i) ==
    IF i > Len(subs) THEN <<>>
    ELSE ClusterBlock(subs[i].key, subs[i].value, g, cfg)
         \o ClusterBlocksFrom(subs, g, cfg, i + 1)

RECURSIVE TitlePositioningFrom(_, _, _)
\* title_positioning: each title with the id rebuilt from the data of the cluster's
\* first node that is in the graph
TitlePositioningFrom(subs, g, i) ==
    IF i > Len(subs) THEN <<>>
    ELSE LET in_graph == SelectSeq(subs[i].value.nodes, LAMBDA node_id : HasNode(g, node_id))
             node_data == DictGet(g.nodes, in_graph[1])
             first_resource_id == NodeId(GetStr(node_data, "category", ""),
                                         GetStr(node_data, "name", ""),
                                         GetStr(node_data, "resource_type", ""))
         IN  (IF in_graph # <<>> /\ first_resource_id # ""
              THEN <<<<"title_" \o CleanSubgraphName(subs[i].key), first_resource_id>>>>
              ELSE <<>>)
             \o TitlePositioningFrom(subs, g, i + 1)

\* the statements that place the titles
TitleStatements(title_positioning) ==
    (IF Len(title_positioning) > 1
     THEN <<[stmt |-> "rank", rank |-> "same",
             ids |-> [i \in 1..Len(title_positioning) |-> title_positioning[i][1]]]>>
     ELSE <<>>)
    \o [i \in 1..Len(title_positioning) |->
           [stmt |-> "edge", source |-> title_positioning[i][1],
            target |-> title_positioning[i][2],
            attributes |-> <<"style=invis", "weight=100", "minlen=1">>]]

\* the container without its early return for an empty cluster map
_generate_subgraphs_unguarded(g, subs, cfg) ==
    <<[stmt |-> "subgraph", name |-> "cluster_main", label |-> "Azure Resources",
       style |-> "dashed", color |-> "gray"]>>
    \o ClusterBlocksFrom(subs, g, cfg, 1)
    \o <<[stmt |-> "comment", text |-> "Position external resource group titles"]>>
    \o TitleStatements(TitlePositioningFrom(subs, g, 1))
    \o <<[stmt |-> "end", name |-> "cluster_main"]>>

_generate_subgraphs_with_container(g, subs, cfg) ==
    IF subs = <<>> THEN <<>>
    ELSE <<[stmt |-> "subgraph", name |-> "cluster_main", label |-> "Azure Resources",
            style |-> "dashed", color |-> "gray"]>>
         \o ClusterBlocksFrom(subs, g, cfg, 1)
         \o <<[stmt |-> "comment", text |-> "Position external resource group titles"]>>
         \o TitleStatements(TitlePositioningFrom(subs, g, 1))
         \o <<[stmt |-> "end", name |-> "cluster_main"]>>

\* the ids listed by the clusters
SubgraphNodeIds(subs) ==
    UNION {Range(subs[i].value.nodes) : i \in 1..Len(subs)}

\* the nodes outside every cluster: Internet gateways first, with their directive
_generate_standalone_nodes(g, subs, cfg) ==
    LET outside == SelectSeq(g.nodes, LAMBDA n : n.key \notin SubgraphNodeIds(subs))
        IsInternet(n) == DictHas(n.value, "resource_type")
                         /\ DictGet(n.value, "resource_type").v = "Internet/Gateway"
        internet_nodes == SelectSeq(outside, IsInternet)
        standalone_content == SelectSeq(outside, LAMBDA n : ~IsInternet(n))
    IN  [i \in 1..Len(internet_nodes) |->
            _format_node(internet_nodes[i].key, internet_nodes[i].value, cfg)]
        \o (IF internet_nodes # <<>>
            THEN <<[stmt |-> "rank", rank |-> "same",
                    ids |-> [i \in 1..Len(internet_nodes) |-> internet_nodes[i].key]]>>
            ELSE <<>>)
        \o [i \in 1..Len(standalone_content) |->
               _format_node(standalone_content[i].key, standalone_content[i].value, cfg)]

\* s.replace('"', '\\"')
EscapeQuotes(s) == StrReplace(s, "\"", "\\\"")

\* the attribute list of an edge statement, as the texts joined by ", "
_format_edge(source, target, edge_data) ==
    LET label == IF DictHas(edge_data, "label") /\ DictGet(edge_data, "label") # ""
                 THEN <<"label=\"" \o EscapeQuotes(DictGet(edge_data, "label")) \o "\"">>
                 ELSE <<>>
        edge_type == IF DictHas(edge_data, "edge_type") THEN DictGet(edge_data, "edge_type")
                     ELSE "association"
        typed == IF edge_type = "dependency" THEN <<"style=\"dashed\"", "color=\"red\"">>
                 ELSE <<"style=\"solid\"">>
        custom == SelectSeq(edge_data, LAMBDA e : e.key \notin {"label", "edge_type"})
    IN  [stmt |-> "edge", source |-> source, target |-> target,
         attributes |-> label \o typed
                        \o [i \in 1..Len(custom) |->
                               custom[i].key \o "=\"" \o custom[i].value \o "\""]]

_generate_edges(g) ==
    LET es == graph_edges(g)
    IN  [i \in 1..Len(es) |-> _format_edge(es[i].source, es[i].target, es[i].data)]

\* the legend block: present when the graph has an association or a dependency edge
_generate_legend(g, cfg) ==
    LET HasType(edge_type) ==
            \E i \in 1..Len(g.edges) :
                /\ DictHas(g.edges[i].data, "edge_type")
                /\ DictGet(g.edges[i].data, "edge_type") = edge_type
        has_associations == HasType("association")
        has_dependencies == HasType("dependency")
    IN  IF ~has_associations /\ ~has_dependencies THEN <<>>
        ELSE <<[stmt |-> "subgraph", name |-> "cluster_legend", label |-> "Legend",
                style |-> "filled",
                fillcolor |-> IF cfg.theme = "light" THEN "white" ELSE "gray",
                fontcolor |-> DictGet(THEMES, cfg.theme).font_color]>>
             \o (IF has_associations
                 THEN <<[stmt |-> "node", id |-> "legend_assoc_src", label |-> "Resource A"],
                        [stmt |-> "node", id |-> "legend_assoc_dst", label |-> "Resource B"],
                        [stmt |-> "edge", source |-> "legend_assoc_src",
                         target |-> "legend_assoc_dst",
                         attributes |-> <<"label=\"Associated\"", "style=solid">>]>>
                 ELSE <<>>)
             \o (IF has_dependencies
                 THEN <<[stmt |-> "node", id |-> "legend_dep_src", label |-> "Resource C"],
                        [stmt |-> "node", id |-> "legend_dep_dst", label |-> "Resource D"],
                        [stmt |-> "edge", source |-> "legend_dep_src",
                         target |-> "legend_dep_dst",
                         attributes |-> <<"label=\"Depends On\"", "style=dashed",
                                          "color=red">>]>>
                 ELSE <<>>)
             \o <<[stmt |-> "end", name |-> "cluster_legend"]>>

\* the graph attributes: the flow direction is written as "LR" whatever the config says
_generate_graph_attributes(cfg) ==
    [stmt |-> "graph", rankdir |-> "LR", splines |-> cfg.splines,
     bgcolor |-> DictGet(THEMES, cfg.theme).background_color,
     fontcolor |-> DictGet(THEMES, cfg.theme).font_color]

_generate_node_defaults(cfg) ==
    [stmt |-> "node_defaults", shape |-> "box", style |-> "filled",
     fillcolor |-> DictGet(THEMES, cfg.theme).node_color,
     fontcolor |-> DictGet(THEMES, cfg.theme).font_color,
     color |-> DictGet(THEMES, cfg.theme).edge_color]

_generate_edge_defaults(cfg) ==
    [stmt |-> "edge_defaults", fontcolor |-> DictGet(THEMES, cfg.theme).font_color,
     color |-> DictGet(THEMES, cfg.theme).edge_color]

\* generate_dot(graph, subgraphs) without a subscription: the document's statements
\* generate_dot emitting the legend whatever the config's show_legends
generate_dot_legend_regardless(g, subs, cfg) ==
    <<[stmt |-> "digraph", name |-> "AzureTopology"],
      _generate_graph_attributes(cfg), _generate_node_defaults(cfg),
      _generate_edge_defaults(cfg),
      [stmt |-> "subgraph", name |-> "cluster_master", label |-> "", style |-> "solid",
       color |-> "lightgray"]>>
    \o _generate_subgraphs_with_container(g, subs, cfg)
    \o _generate_standalone_nodes(g, subs, cfg)
    \o <<[stmt |-> "end", name |-> "cluster_master"]>>
    \o _generate_edges(g)
    \o _generate_legend(g, cfg)
    \o <<[stmt |-> "end", name |-> "AzureTopology"]>>

generate_dot(g, subs, cfg) ==
    <<[stmt |-> "digraph", name |-> "AzureTopology"],
      _generate_graph_attributes(cfg), _generate_node_defaults(cfg),
      _generate_edge_defaults(cfg),
      [stmt |-> "subgraph", name |-> "cluster_master", label |-> "", style |-> "solid",
       color |-> "lightgray"]>>
    \o _generate_subgraphs_with_container(g, subs, cfg)
    \o _generate_standalone_nodes(g, subs, cfg)
    \o <<[stmt |-> "end", name |-> "cluster_master"]>>
    \o _generate_edges(g)
    \o (IF cfg.show_legends THEN _generate_legend(g, cfg) ELSE <<>>)
    \o <<[stmt |-> "end", name |-> "AzureTopology"]>>

(***************************************************************************)
(* The operations on a builder and its generator.                          *)
(***************************************************************************)
MaxBuilds == 1

\* GraphBuilder.build_graph(resources, network_topology), for a resource list and an
\* association list out of the given sets, on a builder that has built fewer than
\* limit times
BuildGraphUpTo(inputs, topologies, limit) ==
    /\ pc \in {"new", "built", "generated"}
    /\ builds < limit
    /\ \E rs \in inputs, associations \in topologies,
          pattern_order \in Orders(config.exclude_types) :
          \E filtered_resources \in {_filter_resources(rs, config, pattern_order)} :
          \E ns \in {_create_resource_nodes(_group_resources(filtered_resources, config),
                                            config)} :
          \E dependency \in {_create_dependency_edges(filtered_resources)} :
          \E es \in {_create_network_edges(associations, filtered_resources)
                      \o dependency.edges} :
          \E g \in {_populate_networkx_graph(EmptyGraph, ns, es)} :
              /\ resources' = rs
              /\ topology' = associations
              /\ nodes' = ns
              /\ edges' = es
              /\ IF dependency.raised # None
                 THEN /\ graph' = EmptyGraph
                      /\ pc' = "raised"
                      /\ UNCHANGED subgraphs
                 ELSE /\ graph' = g
                      /\ subgraphs' = _create_subgraphs(filtered_resources, g, subgraphs)
                      /\ pc' = "built"
    /\ builds' = builds + 1
    /\ UNCHANGED <<config, dot, probe>>

\* build_graph on a builder that has built fewer than MaxBuilds times
BuildGraph(inputs, topologies) == BuildGraphUpTo(inputs, topologies, MaxBuilds)

\* DOTGenerator(config).generate_dot(graph, builder.subgraphs)
GenerateDot ==
    /\ pc = "built"
    /\ dot' = generate_dot(graph, subgraphs, config)
    /\ pc' = "generated"
    /\ UNCHANGED <<config, resources, topology, nodes, edges, graph, subgraphs, builds, probe>>

(***************************************************************************)
(* Dependencies between resources: Spec.                                   *)
(***************************************************************************)
MaxInput == 3

RECURSIVE DistinctSeqsUpTo(_, _)
\* the sequences without repetition of at most n elements of S
DistinctSeqsUpTo(S, n) ==
    IF n = 0 THEN {<<>>}
    ELSE LET shorter == DistinctSeqsUpTo(S, n - 1)
         IN  shorter \cup UNION {{Append(s, x) : x \in S \ Range(s)} :
                                 s \in {t \in shorter : Len(t) = n - 1}}

DependencyPool ==
    {AzureResource("vm1", T_VM, "Compute", "rg1", <<Explicit("disk1")>>, <<>>),
     AzureResource("disk1", T_Disk, "Compute", "rg1", <<>>, <<>>),
     AzureResource("vm2", T_VM, "Compute", "rg1",
                   <<Explicit("ghost"), Explicit("nic1")>>, <<>>),
     AzureResource("nic1", T_NIC, "Network", "rg2", <<Explicit("vm2")>>, <<>>),
     AzureResource("nic2", T_NIC, "Network", "rg2",
                   <<StrDependency("vm2"), StrDependency("missing")>>, <<>>)}

DependencyTopologies ==
    {<<>>,
     <<[source_id |-> "/subscriptions/sub/resourceGroups/rg2/providers/"
                      \o T_NIC \o "/nic1",
        target_id |-> "/subscriptions/sub/resourceGroups/rg1/providers/" \o T_VM \o "/vm2",
        association_type |-> "attached_to"]>>,
     \* endpoints found by name, an endpoint that is not found, an endpoint given by its
     \* name and type suffix
     <<[source_id |-> "/subscriptions/other/resourceGroups/rg2/providers/"
                      \o T_NIC \o "/nic1",
        target_id |-> "vm2", association_type |-> "attached_to"],
       [source_id |-> "/subscriptions/sub/resourceGroups/rg1/providers/" \o T_VM \o "/vm1",
        target_id |-> "", association_type |-> "dangling"],
       [source_id |-> "nic2_networkinterfaces",
        target_id |-> "/subscriptions/sub/resourceGroups/rg1/providers/" \o T_VM \o "/vm2",
        association_type |-> "serves"]>>}

Init ==
    /\ \E depth \in {1, 2}, exclude_types \in {{}, {"*/networkInterfaces"}} :
          NewBuilder([DefaultConfig EXCEPT !.category_depth = depth,
                                           !.exclude_types = exclude_types])
    /\ probe = [fn |-> "build_graph"]

Build == BuildGraph(DistinctSeqsUpTo(DependencyPool, MaxInput), DependencyTopologies)

Next == Build \/ GenerateDot

Spec == Init /\ [][Next]_vars

\* the filtered collection of the last build (the verdict on a resource does not
\* depend on the order the patterns are tried in: C2)
Filtered ==
    _filter_resources(resources, config,
                      CHOOSE o \in Orders(config.exclude_types) : TRUE)

Built == pc \in {"built", "generated"}

\* the synthesized dependency edges from source to target
DependencyEdgesBetween(source, target) ==
    SelectSeq(edges, LAMBDA e : /\ e.edge_type = "dependency"
                                /\ e.source = source /\ e.target = target)

\* the resources of the filtered collection a dependency name resolves to
ResolvedBy(dep_name) == {r \in Range(Filtered) : r.name = dep_name}

RECURSIVE ResolvableCount(_, _)
\* the number of dependency entries, from resource i on, that name a filtered resource
ResolvableCount(rs, i) ==
    IF i > Len(rs) THEN 0
    ELSE Cardinality({d \in 1..Len(rs[i].dependencies) :
                         ResolvedBy(rs[i].dependencies[d].target_name) # {}})
         + ResolvableCount(rs, i + 1)

\* C6: build_graph never raises on a dependency whose target is absent from the
\* filtered collection; such a dependency yields no edge (every dependency edge ends
\* at the id of a filtered resource, and there are exactly as many dependency edges as
\* resolvable dependency entries), and every resolvable dependency of the same
\* resource still has its edge.
C6_DanglingDependencyTolerated ==
    /\ pc # "raised"
    /\ Built =>
         /\ Len(SelectSeq(edges, LAMBDA e : e.edge_type = "dependency"))
               = ResolvableCount(Filtered, 1)
         /\ \A i \in 1..Len(edges) :
               edges[i].edge_type = "dependency"
               => \E r \in Range(Filtered) : edges[i].target = ResourceNodeId(r)
         /\ \A r \in Range(Filtered) : \A d \in 1..Len(r.dependencies) :
               ResolvedBy(r.dependencies[d].target_name) # {}
               => \E u \in ResolvedBy(r.dependencies[d].target_name) :
                     DependencyEdgesBetween(ResourceNodeId(r), ResourceNodeId(u)) # <<>>

\* C6's case: a built graph whose input has a resource with a dangling dependency
\* listed before a resolvable one, and the resolvable one has its edge
C6_Witness ==
    /\ pc = "built"
    /\ \E r \in Range(Filtered) :
          /\ Len(r.dependencies) = 2
          /\ ResolvedBy(r.dependencies[1].target_name) = {}
          /\ \E u \in ResolvedBy(r.dependencies[2].target_name) :
                DependencyEdgesBetween(ResourceNodeId(r), ResourceNodeId(u)) # <<>>

\* a network interface and a virtual machine of the filtered collection that depend on
\* each other
MutualNicVmPairs ==
    {p \in Range(Filtered) \X Range(Filtered) :
        /\ p[1].resource_type = T_NIC
        /\ p[2].resource_type = T_VM
        /\ p[2].name \in Range(get_dependency_names(p[1]))
        /\ p[1].name \in Range(get_dependency_names(p[2]))}

\* graph.has_edge(source, target)
HasEdge(g, source, target) ==
    \E i \in 1..Len(g.edges) : g.edges[i].source = source /\ g.edges[i].target = target

\* C7 as stated: whenever a network interface and a virtual machine depend on each
\* other, the assembled graph has the NIC-to-VM edge and not the VM-to-NIC edge.
C7_MutualPairAlwaysCollapsed ==
    Built => \A p \in MutualNicVmPairs :
                /\ HasEdge(graph, ResourceNodeId(p[1]), ResourceNodeId(p[2]))
                /\ ~HasEdge(graph, ResourceNodeId(p[2]), ResourceNodeId(p[1]))

\* the pair's two ids are ids of the node list, and exactly two edges were synthesized
\* between them
CollapsiblePair(p) ==
    /\ \A r \in {p[1], p[2]} : \E n \in 1..Len(nodes) : nodes[n].id = ResourceNodeId(r)
    /\ Cardinality({i \in 1..Len(edges) :
                       PairKey(edges[i]) = {ResourceNodeId(p[1]), ResourceNodeId(p[2])}}) = 2

\* C7 (amended): when a network interface and a virtual machine depend on each other,
\* each has its own node in the node list and exactly two edges were synthesized
\* between the two nodes, the assembled graph has the NIC-to-VM edge and not the
\* VM-to-NIC edge, whichever of the two was synthesized first.
C7_RedundantPairCollapsed ==
    Built => \A p \in MutualNicVmPairs :
                CollapsiblePair(p)
                => /\ HasEdge(graph, ResourceNodeId(p[1]), ResourceNodeId(p[2]))
                   /\ ~HasEdge(graph, ResourceNodeId(p[2]), ResourceNodeId(p[1]))

\* C7's case: the VM-to-NIC edge was synthesized first, the NIC-to-VM edge second, and
\* the graph was assembled from them
C7_Witness ==
    /\ pc = "built"
    /\ \E p \in MutualNicVmPairs :
          /\ CollapsiblePair(p)
          /\ \E i, j \in 1..Len(edges) :
                /\ i < j
                /\ edges[i].source = ResourceNodeId(p[2])
                /\ edges[i].target = ResourceNodeId(p[1])
                /\ edges[j].source = ResourceNodeId(p[1])
                /\ edges[j].target = ResourceNodeId(p[2])
          /\ HasEdge(graph, ResourceNodeId(p[1]), ResourceNodeId(p[2]))

\* the scenario of C10: a new builder's build of vm1 with its one dependency on disk1,
\* both Compute, both in rg1, at depth 2
C10_Scenario ==
    /\ config.category_depth = 2
    /\ builds = 1
    /\ Len(resources) = 2
    /\ \E v, k \in 1..2 :
          /\ resources[v].name = "vm1" /\ resources[v].resource_type = T_VM
          /\ resources[k].name = "disk1" /\ resources[k].resource_type = T_Disk
          /\ resources[v].category = "Compute" /\ resources[k].category = "Compute"
          /\ resources[v].resource_group = "rg1" /\ resources[k].resource_group = "rg1"
          /\ get_dependency_names(resources[v]) = <<"disk1">>
          /\ resources[k].dependencies = <<>>

\* C10: in the vm1/disk1 scenario at depth 2, run on a new builder, the graph has exactly the nodes
\* compute_vm1_virtualmachines and compute_disk1_disks, the one cluster is rg1's and
\* holds both, and the one edge runs from the VM node to the disk node, is a
\* dependency edge labelled "attached", solid, with weight 10 and pen width 2.
C10_EndToEndScenario ==
    (Built /\ C10_Scenario) =>
        /\ {graph.nodes[n].key : n \in 1..Len(graph.nodes)}
              = {"compute_vm1_virtualmachines", "compute_disk1_disks"}
        /\ Len(graph.nodes) = 2
        /\ Len(subgraphs) = 1
        /\ subgraphs[1].key = "cluster_rg1"
        /\ Range(subgraphs[1].value.nodes)
              = {"compute_vm1_virtualmachines", "compute_disk1_disks"}
        /\ Len(subgraphs[1].value.nodes) = 2
        /\ Len(graph.edges) = 1
        /\ graph.edges[1].source = "compute_vm1_virtualmachines"
        /\ graph.edges[1].target = "compute_disk1_disks"
        /\ DictGet(graph.edges[1].data, "edge_type") = "dependency"
        /\ DictGet(graph.edges[1].data, "label") = "attached"
        /\ DictGet(graph.edges[1].data, "style") = "solid"
        /\ DictGet(graph.edges[1].data, "weight") = "10"
        /\ DictGet(graph.edges[1].data, "penwidth") = "2"

\* C10's case: the scenario's graph has been built and its document generated
C10_Witness ==
    /\ pc = "generated"
    /\ C10_Scenario
    /\ Len(graph.edges) = 1
    /\ \E i \in 1..Len(dot) : dot[i].stmt = "subgraph" /\ dot[i].name = "cluster_rg1"

(***************************************************************************)
(* Priority layout inside the clusters: SpecLayout.                        *)
(***************************************************************************)
MaxLayoutInput == 4

\* resources of six priorities, two network interfaces among them, and a storage
\* account alone in a second resource group
LayoutPool ==
    {AzureResource("pip1", T_PIP, "Network", "rg1", <<>>, <<>>),
     AzureResource("nic-a", T_NIC, "Network", "rg1", <<>>, <<>>),
     AzureResource("nic-b", T_NIC, "Network", "rg1", <<>>, <<>>),
     AzureResource("vnet1", T_VNet, "Network", "rg1", <<>>, <<>>),
     AzureResource("vm1", T_VM, "Compute", "rg1", <<>>, <<>>),
     AzureResource("vm1-disk", T_Disk, "Compute", "rg1", <<>>, <<>>),
     AzureResource("site1", "Microsoft.Web/sites", "Web", "rg1", <<>>, <<>>),
     AzureResource("stor1", T_Storage, "Storage", "rg2", <<>>, <<>>)}

InitLayout ==
    /\ NewBuilder(DefaultConfig)
    /\ probe = [fn |-> "generate_dot"]

BuildLayout == BuildGraph(DistinctSeqsUpTo(LayoutPool, MaxLayoutInput), {<<>>})

NextLayout == BuildLayout \/ GenerateDot

SpecLayout == InitLayout /\ [][NextLayout]_vars

\* the priority table as the specification words it
TablePriority(resource_type) ==
    LET t == StrLower(resource_type)
    IN  IF t = "microsoft.network/publicipaddresses" THEN 1
        ELSE IF t = "microsoft.network/networksecuritygroups" THEN 2
        ELSE IF t = "microsoft.network/networkinterfaces" THEN 3
        ELSE IF t = "microsoft.network/virtualnetworks/subnets" THEN 4
        ELSE IF t = "microsoft.network/virtualnetworks" THEN 5
        ELSE IF t \in {"microsoft.compute/virtualmachines",
                       "microsoft.compute/virtualmachinescalesets",
                       "microsoft.containerservice/managedclusters",
                       "microsoft.redhatopenshift/openshiftclusters"} THEN 6
        ELSE IF t \in {"microsoft.compute/disks", "microsoft.storage/storageaccounts"} THEN 7
        ELSE IF t \in {"microsoft.compute/sshpublickeys",
                       "microsoft.managedidentity/userassignedidentities",
                       "microsoft.compute/galleries", "microsoft.compute/galleries/images",
                       "microsoft.compute/galleries/images/versions"} THEN 8
        ELSE 99

\* the names of the clusters of the document: one per entry of the cluster map
ClusterNames == {subgraphs[i].key : i \in 1..Len(subgraphs)}

\* the positions of the document's statements inside the block of a cluster
BlockOf(cluster) ==
    LET open == CHOOSE i \in 1..Len(dot) : dot[i].stmt = "subgraph" /\ dot[i].name = cluster
        close == CHOOSE i \in 1..Len(dot) : dot[i].stmt = "end" /\ dot[i].name = cluster
    IN  (open + 1)..(close - 1)

\* the ids of the cluster's node statements of priority p
NodesOfPriority(cluster, p) ==
    {dot[i].id : i \in {j \in BlockOf(cluster) :
                           dot[j].stmt = "node" /\ TablePriority(dot[j].resource_type) = p}}

PrioritiesPresent(cluster) ==
    {TablePriority(dot[i].resource_type) : i \in {j \in BlockOf(cluster) : dot[j].stmt = "node"}}

\* the positions of the cluster's same-rank directives
RankDirectives(cluster) ==
    {i \in BlockOf(cluster) : dot[i].stmt = "rank" /\ dot[i].rank = "same"}

\* the ids of priority p other than the disks and storage accounts
RankedOfPriority(cluster, p) ==
    {dot[i].id : i \in {j \in BlockOf(cluster) :
                           /\ dot[j].stmt = "node"
                           /\ TablePriority(dot[j].resource_type) = p
                           /\ StrLower(dot[j].resource_type) \notin
                                 {"microsoft.compute/disks",
                                  "microsoft.storage/storageaccounts"}}}

\* C8 as stated: in every cluster, every priority present has exactly one same-rank
\* directive, and it lists all of the cluster's nodes of that priority.
C8_EveryPriorityRanked ==
    pc = "generated" =>
        \A c \in ClusterNames :
            /\ Cardinality(RankDirectives(c)) = Cardinality(PrioritiesPresent(c))
            /\ \A p \in PrioritiesPresent(c) :
                  \E i \in RankDirectives(c) : Range(dot[i].ids) = NodesOfPriority(c, p)

\* C8 (amended): in every cluster the nodes are grouped by the priority table and
\* every priority present that has a node other than a disk or storage account has
\* exactly one same-rank directive, which lists exactly the cluster's nodes of that
\* priority that are not disks or storage accounts, each once, whatever the insertion
\* order; a priority whose nodes are all disks or storage accounts (priority 7) has no
\* directive.
C8_SameRankPerPriority ==
    pc = "generated" =>
        \A c \in ClusterNames :
            /\ Cardinality(RankDirectives(c))
                  = Cardinality({p \in PrioritiesPresent(c) : RankedOfPriority(c, p) # {}})
            /\ \A p \in PrioritiesPresent(c) :
                  RankedOfPriority(c, p) # {}
                  => \E i \in RankDirectives(c) :
                        /\ Range(dot[i].ids) = RankedOfPriority(c, p)
                        /\ Len(dot[i].ids) = Cardinality(RankedOfPriority(c, p))
            /\ \A i \in RankDirectives(c) :
                  \A id \in Range(dot[i].ids) :
                     \E j \in BlockOf(c) :
                        /\ dot[j].stmt = "node" /\ dot[j].id = id
                        /\ StrLower(dot[j].resource_type) \notin
                              {"microsoft.compute/disks", "microsoft.storage/storageaccounts"}

\* C8's case: a cluster whose two network interfaces share one directive, inserted
\* with another resource between them, next to a disk that has none
C8_Witness ==
    /\ pc = "generated"
    /\ Len(resources) = 4
    /\ resources[1].resource_type = T_NIC
    /\ resources[2].resource_type = T_Disk
    /\ resources[3].resource_type = T_NIC
    /\ "cluster_rg1" \in ClusterNames
    /\ \E i \in RankDirectives("cluster_rg1") : Len(dot[i].ids) = 2
    /\ NodesOfPriority("cluster_rg1", 7) # {}

\* the positions of the cluster's ordering edges: invisible, of weight 100
OrderingEdgeStatements(cluster) ==
    {i \in BlockOf(cluster) :
        /\ dot[i].stmt = "edge"
        /\ dot[i].attributes = <<"style=invis", "weight=100">>}

\* the i-th smallest position of a set of positions
RECURSIVE NthOf(_, _)
NthOf(S, i) ==
    LET least == CHOOSE x \in S : \A y \in S : x <= y
    IN  IF i = 1 THEN least ELSE NthOf(S \ {least}, i - 1)

\* C9: in every cluster with k distinct priorities p1 < ... < pk there are exactly k-1
\* ordering edges; the i-th runs from a node of priority p_i to a node of priority
\* p_(i+1), is invisible (style=invis) and has no label; so none runs from a higher
\* priority to a lower one.
C9_OrderingEdges ==
    pc = "generated" =>
        \A c \in ClusterNames :
            LET priorities == SortedSeq(PrioritiesPresent(c))
                k == Len(priorities)
                ordering == OrderingEdgeStatements(c)
            IN  /\ Cardinality(ordering) = IF k = 0 THEN 0 ELSE k - 1
                /\ \A i \in 1..(k - 1) :
                      LET e == dot[NthOf(ordering, i)]
                      IN  /\ e.source \in NodesOfPriority(c, priorities[i])
                          /\ e.target \in NodesOfPriority(c, priorities[i + 1])
                          /\ \E a \in 1..Len(e.attributes) : e.attributes[a] = "style=invis"
                          /\ \A a \in 1..Len(e.attributes) :
                                ~StartsWith(e.attributes[a], "label")

\* C9's case: a cluster of priorities 1, 3, 3 and 5 with its two ordering edges
C9_Witness ==
    /\ pc = "generated"
    /\ "cluster_rg1" \in ClusterNames
    /\ PrioritiesPresent("cluster_rg1") = {1, 3, 5}
    /\ Cardinality(NodesOfPriority("cluster_rg1", 3)) = 2
    /\ Cardinality(OrderingEdgeStatements("cluster_rg1")) = 2

(***************************************************************************)
(* Two independent runs of the pipeline on one input: SpecDet.  Each run   *)
(* is a new process with a new builder; the order in which a run iterates  *)
(* the exclude_types set is the run's own.                                 *)
(***************************************************************************)
MaxDetInput == 2

DetExcludes ==
    {{}, {"*/networkInterfaces"}, {"*/networkInterfaces", "Microsoft.Compute/disks"}}

InitDet ==
    /\ \E exclude_types \in DetExcludes :
          NewBuilder([DefaultConfig EXCEPT !.exclude_types = exclude_types])
    /\ probe \in [fn : {"pipeline"},
                  input : DistinctSeqsUpTo(DependencyPool, MaxDetInput),
                  associations : DependencyTopologies,
                  first : {<<>>}]

\* build_graph on the run's input
BuildFixed == BuildGraph({probe.input}, {probe.associations})

\* the first run has ended with its document; the second starts on a new builder
Restart ==
    /\ pc = "generated"
    /\ probe.fn = "pipeline"
    /\ probe.first = <<>>
    /\ probe' = [probe EXCEPT !.first = <<[graph |-> graph, subgraphs |-> subgraphs,
                                           dot |-> dot]>>]
    /\ resources' = <<>>
    /\ topology' = <<>>
    /\ nodes' = <<>>
    /\ edges' = <<>>
    /\ graph' = EmptyGraph
    /\ subgraphs' = <<>>
    /\ dot' = <<>>
    /\ builds' = 0
    /\ pc' = "new"
    /\ UNCHANGED config

NextDet == BuildFixed \/ GenerateDot \/ Restart

SpecDet == InitDet /\ [][NextDet]_vars

\* C2: the second of two independent runs of build_graph and generate_dot on the same
\* resources, topology and config ends with the same graph, the same clusters and the
\* same document, statement by statement in the same order, as the first.
C2_Deterministic ==
    (probe.fn = "pipeline" /\ probe.first # <<>> /\ pc = "generated")
    => /\ dot = probe.first[1].dot
       /\ graph = probe.first[1].graph
       /\ subgraphs = probe.first[1].subgraphs

\* C2's case: both runs have ended, on a config with two exclusion patterns (which a
\* run may try in either order), one resource excluded and one resource kept
C2_Witness ==
    /\ probe.fn = "pipeline"
    /\ probe.first # <<>>
    /\ pc = "generated"
    /\ Cardinality(config.exclude_types) = 2
    /\ Len(resources) = 2
    /\ Len(graph.nodes) = 1
    /\ dot = probe.first[1].dot

(***************************************************************************)
(* The empty input (Spec).                                                 *)
(***************************************************************************)
\* the statements of kind k among the first n statements of document d
StatementsOfKind(d, kinds, n) == {i \in 1..n : d[i].stmt \in kinds}

\* every block of d that is opened is closed, and none is closed before it is opened
Balanced(d) ==
    /\ \A n \in 1..Len(d) :
          Cardinality(StatementsOfKind(d, {"end"}, n))
             <= Cardinality(StatementsOfKind(d, {"digraph", "subgraph"}, n))
    /\ Cardinality(StatementsOfKind(d, {"end"}, Len(d)))
          = Cardinality(StatementsOfKind(d, {"digraph", "subgraph"}, Len(d)))

\* C11: build_graph of the empty resource list on a new builder raises nothing, and
\* generate_dot then yields the header, the graph attributes and the node and edge
\* defaults, balanced blocks of which the master container is the only subgraph, and
\* no node statement and no edge statement.
C11_EmptyInputMinimalDocument ==
    (builds = 1 /\ resources = <<>>) =>
        /\ pc \in {"built", "generated"}
        /\ pc = "generated" =>
              /\ Len(dot) >= 4
              /\ dot[1] = [stmt |-> "digraph", name |-> "AzureTopology"]
              /\ dot[2] = _generate_graph_attributes(config)
              /\ dot[3] = _generate_node_defaults(config)
              /\ dot[4] = _generate_edge_defaults(config)
              /\ Balanced(dot)
              /\ \A i \in 1..Len(dot) :
                    /\ dot[i].stmt \notin {"node", "edge"}
                    /\ dot[i].stmt = "subgraph" => dot[i].name = "cluster_master"

C11_Witness ==
    /\ builds = 1
    /\ resources = <<>>
    /\ pc = "generated"
    /\ Len(dot) = 7

(***************************************************************************)
(* Several builds on one builder: SpecRebuild.                             *)
(***************************************************************************)
MaxRebuilds == 2

MaxRebuildInput == 2

RebuildPool ==
    {AzureResource("vm1", T_VM, "Compute", "rg1", <<Explicit("nic1")>>, <<>>),
     AzureResource("nic1", T_NIC, "Network", "rg2", <<>>, <<>>),
     AzureResource("disk1", T_Disk, "Compute", "rg3", <<>>, <<>>)}

InitRebuild ==
    /\ \E depth \in {1, 2} : NewBuilder([DefaultConfig EXCEPT !.category_depth = depth])
    /\ probe = [fn |-> "build_graph"]

Rebuild == BuildGraphUpTo(DistinctSeqsUpTo(RebuildPool, MaxRebuildInput), {<<>>}, MaxRebuilds)

NextRebuild == Rebuild \/ GenerateDot

SpecRebuild == InitRebuild /\ [][NextRebuild]_vars

\* the state of a new builder after build_graph(resources, topology)
FreshBuild ==
    LET filtered_resources == Filtered
        ns == _create_resource_nodes(_group_resources(filtered_resources, config), config)
        es == _create_network_edges(topology, filtered_resources)
              \o _create_dependency_edges(filtered_resources).edges
        g == _populate_networkx_graph(EmptyGraph, ns, es)
    IN  [nodes |-> ns, edges |-> es, graph |-> g,
         subgraphs |-> _create_subgraphs(filtered_resources, g, <<>>)]

\* C12: after any sequence of build_graph calls on one builder, the node list, the edge
\* list, the graph and the cluster map are those of a new builder after the last call
\* alone.
C12_NoStateCrossesBuilds ==
    pc = "built" =>
        [nodes |-> nodes, edges |-> edges, graph |-> graph, subgraphs |-> subgraphs]
            = FreshBuild

(***************************************************************************)
(* _filter_resources on its own: SpecFilter.                               *)
(***************************************************************************)
MaxFilterInput == 3

FilterPool ==
    {AzureResource("vm1", T_VM, "Compute", "rg1", <<>>, <<>>),
     AzureResource("nic1", T_NIC, "Network", "rg1", <<>>, <<>>),
     AzureResource("nic9", T_NIC, "Network", "rg9", <<>>, <<>>),
     AzureResource("disk1", T_Disk, "Compute", "rg2", <<>>, <<>>),
     AzureResource("pip1", T_PIP, "Network", "rg2", <<>>, <<>>)}

FilterExcludes ==
    {{}, {"microsoft.compute/virtualmachines"}, {"*/networkInterfaces"},
     {"Microsoft.Compute/*", "*/publicipaddresses"}}

InitFilter ==
    /\ \E compute_only \in BOOLEAN, exclude_types \in FilterExcludes :
          NewBuilder([DefaultConfig EXCEPT !.compute_only = compute_only,
                                           !.exclude_types = exclude_types])
    /\ probe \in [fn : {"_filter_resources"},
                  input : DistinctSeqsUpTo(FilterPool, MaxFilterInput),
                  done : {FALSE}, out : {<<>>}]

\* _filter_resources(resources), the run iterating exclude_types in some order
FilterResources ==
    /\ probe.fn = "_filter_resources"
    /\ ~probe.done
    /\ \E pattern_order \in Orders(config.exclude_types) :
          probe' = [probe EXCEPT !.done = TRUE,
                                 !.out = _filter_resources(probe.input, config,
                                                           pattern_order)]
    /\ UNCHANGED <<builder, pc>>

NextFilter == FilterResources

SpecFilter == InitFilter /\ [][NextFilter]_vars

\* the type matches one of the exclusion patterns, by the reference rule
MatchesSomeExclusion(resource_type, exclude_types) ==
    \E p \in exclude_types : ReferenceMatch(resource_type, p)

\* the resources of rs, in order, whose type matches no exclusion pattern
WithoutExcluded(rs, exclude_types) ==
    SelectSeq(rs, LAMBDA r : ~MatchesSomeExclusion(r.resource_type, exclude_types))

\* C13: the result of _filter_resources holds no resource whose type matches an
\* exclusion pattern; with compute-only enabled it is the compute-only subset of the
\* whole input with the excluded resources then removed, and without compute-only it
\* is the input with the excluded resources removed.
C13_ExclusionAppliesLast ==
    (probe.fn = "_filter_resources" /\ probe.done) =>
        /\ \A i \in 1..Len(probe.out) :
              ~MatchesSomeExclusion(probe.out[i].resource_type, config.exclude_types)
        /\ probe.out = WithoutExcluded(IF config.compute_only
                                       THEN _filter_compute_only(probe.input)
                                       ELSE probe.input,
                                       config.exclude_types)

\* C13's case: the virtual machine is excluded, and the network interface of its group
\* is in the result of the compute-only filter all the same
C13_Witness ==
    /\ probe.fn = "_filter_resources"
    /\ probe.done
    /\ config.compute_only
    /\ config.exclude_types = {"microsoft.compute/virtualmachines"}
    /\ \E i \in 1..Len(probe.input) : probe.input[i].resource_type = T_VM
    /\ \A i \in 1..Len(probe.input) : probe.input[i].resource_type # T_Disk
    /\ \E i \in 1..Len(probe.out) : probe.out[i].name = "nic1"
    /\ \A i \in 1..Len(probe.out) : probe.out[i].resource_type # T_VM

(***************************************************************************)
(* The first step of the compute-only expansion (SpecComputeOnly).         *)
(***************************************************************************)
\* the compute-related types as the specification lists them: network interfaces,
\* public IPs, virtual networks, subnets, security groups, load balancers, storage
\* accounts and managed identities
ListedRelatedTypes ==
    {"microsoft.network/networkinterfaces", "microsoft.network/publicipaddresses",
     "microsoft.network/virtualnetworks", "microsoft.network/virtualnetworks/subnets",
     "microsoft.network/networksecuritygroups", "microsoft.network/loadbalancers",
     "microsoft.storage/storageaccounts",
     "microsoft.managedidentity/userassignedidentities"}

\* the owning groups of the seed resources of rs
SeedGroups(rs) ==
    {rs[i].resource_group : i \in {j \in 1..Len(rs) : IsComputeType(rs[j])}}

\* C14: after the compute-only expansion of an input with a seed, every input resource
\* of a listed compute-related type whose owning group is a seed's owning group is in
\* the output.
C14_RelatedInSeedGroupIncluded ==
    (probe.fn = "_filter_compute_only" /\ probe.applied = 1) =>
        \A i \in 1..Len(probe.input) :
            (/\ StrLower(probe.input[i].resource_type) \in ListedRelatedTypes
             /\ probe.input[i].resource_group \in SeedGroups(probe.input))
            => probe.input[i] \in Range(probe.out)

(***************************************************************************)
(* _group_resources and _create_resource_nodes on their own: SpecGroup.    *)
(***************************************************************************)
MaxGroupInput == 3

GroupPool ==
    {AzureResource("vm1", T_VM, "Compute", "rg1", <<>>, <<>>),
     AzureResource("vm2", T_VM, "Compute", "rg2", <<>>, <<>>),
     AzureResource("disk1", T_Disk, "Compute", "rg1", <<>>, <<>>),
     AzureResource("nic1", T_NIC, "Network", "rg1", <<>>, <<>>),
     AzureResource("pip1", T_PIP, "Network", "rg2", <<>>, <<>>)}

InitGroup ==
    /\ \E depth \in {1, 2, 3} : NewBuilder([DefaultConfig EXCEPT !.category_depth = depth])
    /\ probe \in [fn : {"_group_resources"},
                  input : DistinctSeqsUpTo(GroupPool, MaxGroupInput),
                  step : {0}, grouped : {<<>>}, nodes : {<<>>}]

\* grouped_resources = self._group_resources(filtered_resources)
GroupResources ==
    /\ probe.fn = "_group_resources"
    /\ probe.step = 0
    /\ probe' = [probe EXCEPT !.step = 1,
                              !.grouped = _group_resources(probe.input, config)]
    /\ UNCHANGED <<builder, pc>>

\* self._create_resource_nodes(grouped_resources)
CreateResourceNodes ==
    /\ probe.fn = "_group_resources"
    /\ probe.step = 1
    /\ probe' = [probe EXCEPT !.step = 2,
                              !.nodes = _create_resource_nodes(probe.grouped, config)]
    /\ UNCHANGED <<builder, pc>>

NextGroup == GroupResources \/ CreateResourceNodes

SpecGroup == InitGroup /\ [][NextGroup]_vars

\* the key the specification gives a resource: its category at depth 1, else its type
GroupKey(r) == IF config.category_depth = 1 THEN r.category ELSE r.resource_type

\* the position of the first resource of the input with key k
FirstOccurrenceOfKey(k) ==
    CHOOSE i \in 1..Len(probe.input) :
        /\ GroupKey(probe.input[i]) = k
        /\ \A j \in 1..(i - 1) : GroupKey(probe.input[j]) # k

\* C15: the groups of _group_resources are keyed by category at depth 1 and by type
\* otherwise, they partition the input, their keys come in the order of first
\* occurrence in the input, and each group's members are in input order.
C15_GroupingStable ==
    (probe.fn = "_group_resources" /\ probe.step >= 1) =>
        LET grouped == probe.grouped
        IN  /\ \A g \in 1..Len(grouped) :
                  /\ grouped[g].value
                        = SelectSeq(probe.input, LAMBDA r : GroupKey(r) = grouped[g].key)
                  /\ grouped[g].value # <<>>
            /\ \A g, h \in 1..Len(grouped) :
                  g < h => /\ grouped[g].key # grouped[h].key
                           /\ FirstOccurrenceOfKey(grouped[g].key)
                                 < FirstOccurrenceOfKey(grouped[h].key)
            /\ \A i \in 1..Len(probe.input) :
                  Cardinality({g \in 1..Len(grouped) :
                                  probe.input[i] \in Range(grouped[g].value)}) = 1

\* C15's case: at depth 1 a resource of another category stands between two resources
\* of one category, and the two are in one group
C15_Witness ==
    /\ probe.fn = "_group_resources"
    /\ probe.step >= 1
    /\ config.category_depth = 1
    /\ Len(probe.input) = 3
    /\ probe.input[1].category = "Compute"
    /\ probe.input[2].category = "Network"
    /\ probe.input[3].category = "Compute"
    /\ probe.input[1].resource_type # probe.input[3].resource_type
    /\ Len(probe.grouped) = 2
    /\ probe.grouped[1].value = <<probe.input[1], probe.input[3]>>

\* the group is represented by one grouped node
IsGrouped(group) == config.category_depth = 1 /\ Len(group.value) > 1

\* the positions of the node list holding the grouped node of a group
GroupedNodesOf(group) ==
    {n \in 1..Len(probe.nodes) :
        /\ probe.nodes[n].name = group.key
        /\ DictHas(probe.nodes[n].attributes, "resources")
        /\ DictGet(probe.nodes[n].attributes, "resources").v
              = [i \in 1..Len(group.value) |-> group.value[i].name]}

\* the positions of the node list holding the individual node of a resource
IndividualNodesOf(r) ==
    {n \in 1..Len(probe.nodes) :
        /\ probe.nodes[n].id = ResourceNodeId(r)
        /\ probe.nodes[n].name = r.name
        /\ probe.nodes[n].resource_type = r.resource_type
        /\ ~DictHas(probe.nodes[n].attributes, "resources")}

\* C16: for each group the node list holds one grouped node and no individual node of
\* a member when the depth is 1 and the group has more than one member, and otherwise
\* one individual node per member and no grouped node; it holds no other node.
C16_GroupedOrIndividual ==
    (probe.fn = "_group_resources" /\ probe.step = 2) =>
        LET grouped == probe.grouped
        IN  /\ \A g \in 1..Len(grouped) :
                  IF IsGrouped(grouped[g])
                  THEN /\ Cardinality(GroupedNodesOf(grouped[g])) = 1
                       /\ \A i \in 1..Len(grouped[g].value) :
                             IndividualNodesOf(grouped[g].value[i]) = {}
                  ELSE /\ GroupedNodesOf(grouped[g]) = {}
                       /\ \A i \in 1..Len(grouped[g].value) :
                             Cardinality(IndividualNodesOf(grouped[g].value[i])) = 1
            /\ \A n \in 1..Len(probe.nodes) :
                  \E g \in 1..Len(grouped) :
                      \/ n \in GroupedNodesOf(grouped[g])
                      \/ \E i \in 1..Len(grouped[g].value) :
                            n \in IndividualNodesOf(grouped[g].value[i])

\* C16's case: at depth 1 a group of two members has its grouped node next to the
\* individual node of a group of one
C16_Witness ==
    /\ probe.fn = "_group_resources"
    /\ probe.step = 2
    /\ config.category_depth = 1
    /\ Len(probe.grouped) = 2
    /\ Len(probe.grouped[1].value) = 2
    /\ Len(probe.grouped[2].value) = 1
    /\ Len(probe.nodes) = 2
    /\ probe.nodes[1].id = "group_compute"
    /\ probe.nodes[2].id = ResourceNodeId(probe.grouped[2].value[1])

(***************************************************************************)
(* Association edges (Spec).                                               *)
(***************************************************************************)
\* the resources of rs an association endpoint stands for: the one with that full id,
\* the one with that name and type suffix, or one with the name the id ends in
EndpointCandidates(endpoint_id, rs) ==
    {r \in Range(rs) :
        \/ FullResourceId(r) = endpoint_id
        \/ r.name \o "_" \o TypeSuffix(r.resource_type) = endpoint_id
        \/ r.name = _extract_resource_name_from_id(endpoint_id)}

\* the association entries of the last build with both endpoints in the filtered
\* collection
ResolvedAssociations ==
    SelectSeq(topology, LAMBDA a : /\ EndpointCandidates(a.source_id, Filtered) # {}
                                   /\ EndpointCandidates(a.target_id, Filtered) # {})

AssociationEdges == SelectSeq(edges, LAMBDA e : e.edge_type = "association")

\* C17: build_graph does not raise on an association, and the association edges it
\* synthesizes are, in order, one per association entry whose source and target are
\* both found in the filtered collection, each running between the nodes of the
\* resources found and labelled with the entry's association type.
C17_AssociationEdgesResolvedOnly ==
    /\ builds >= 1 => Built
    /\ Built =>
         /\ Len(AssociationEdges) = Len(ResolvedAssociations)
         /\ \A i \in 1..Len(AssociationEdges) :
               /\ AssociationEdges[i].label = ResolvedAssociations[i].association_type
               /\ AssociationEdges[i].source
                     \in {ResourceNodeId(r) :
                            r \in EndpointCandidates(ResolvedAssociations[i].source_id,
                                                     Filtered)}
               /\ AssociationEdges[i].target
                     \in {ResourceNodeId(r) :
                            r \in EndpointCandidates(ResolvedAssociations[i].target_id,
                                                     Filtered)}

\* C17's case: of three association entries the one whose endpoints are found by name
\* has its edge, and the two with an endpoint that is not found have none
C17_Witness ==
    /\ Built
    /\ Len(topology) = 3
    /\ Len(AssociationEdges) = 1
    /\ AssociationEdges[1].label = "attached_to"
    /\ AssociationEdges[1].source = "network_nic1_networkinterfaces"
    /\ AssociationEdges[1].target = "compute_vm2_virtualmachines"
    /\ \E i \in 1..Len(resources) : resources[i].name = "vm1"

(***************************************************************************)
(* _create_dependency_edges on its own: SpecStyle.                         *)
(***************************************************************************)
MaxStyleInput == 3

Derived(target_name, description) == ResourceDependency(target_name, "derived", description)

StylePool ==
    {AzureResource("vm1", T_VM, "Compute", "rg1",
                   <<Derived("nsg1", "same subnet"), Explicit("disk1"), Explicit("nic1")>>,
                   <<>>),
     AzureResource("nsg1", T_NSG, "Network", "rg1",
                   <<Derived("vm1", None), Explicit("st1")>>, <<>>),
     AzureResource("nic1", T_NIC, "Network", "rg1",
                   <<StrDependency("nsg1"), Derived("disk1", "")>>, <<>>),
     AzureResource("disk1", T_Disk, "Compute", "rg1", <<Derived("gone", "lost")>>, <<>>),
     AzureResource("st1", T_Storage, "Storage", "rg1",
                   <<ResourceDependency("vm1", "explicit", "backs")>>, <<>>)}

InitStyle ==
    /\ NewBuilder(DefaultConfig)
    /\ probe \in [fn : {"_create_dependency_edges"},
                  input : DistinctSeqsUpTo(StylePool, MaxStyleInput),
                  done : {FALSE}, edges : {<<>>}, raised : {None}]

\* self._create_dependency_edges(filtered_resources)
CreateDependencyEdges ==
    /\ probe.fn = "_create_dependency_edges"
    /\ ~probe.done
    /\ \E dependency \in {_create_dependency_edges(probe.input)} :
          probe' = [probe EXCEPT !.done = TRUE, !.edges = dependency.edges,
                                 !.raised = dependency.raised]
    /\ UNCHANGED <<builder, pc>>

NextStyle == CreateDependencyEdges

SpecStyle == InitStyle /\ [][NextStyle]_vars

\* the ordered type pair has a branch of its own in the chain
InPairTable(source_type, target_type) ==
    \/ source_type = T_VM /\ target_type = T_Storage
    \/ \E k \in 1..Len(DependencyStyleTable) :
          /\ source_type \in DependencyStyleTable[k].source
          /\ target_type = DependencyStyleTable[k].target

\* the dependencies <<i, d, t>> of the input that name the input's resource t and whose
\* type pair has no branch of its own
FallbackDependencies ==
    {idt \in (1..Len(probe.input)) \X (1..MaxStyleInput) \X (1..Len(probe.input)) :
        /\ idt[2] <= Len(probe.input[idt[1]].dependencies)
        /\ probe.input[idt[1]].dependencies[idt[2]].target_name = probe.input[idt[3]].name
        /\ ~InPairTable(probe.input[idt[1]].resource_type,
                        probe.input[idt[3]].resource_type)}

\* the synthesized edges from resource i of the input to resource t
EdgesOfDependency(i, t) ==
    SelectSeq(probe.edges, LAMBDA e : /\ e.edge_type = "dependency"
                                      /\ e.source = ResourceNodeId(probe.input[i])
                                      /\ e.target = ResourceNodeId(probe.input[t]))

\* C18: the edge of a resolved dependency whose type pair has no branch of its own is
\* dotted and labelled "derived", or "derived (<description>)" with a description, when
\* the dependency is derived, and dashed, red and labelled "depends on" otherwise.
C18_FallbackByDependencyKind ==
    (probe.fn = "_create_dependency_edges" /\ probe.done) =>
        /\ probe.raised = None
        /\ \A idt \in FallbackDependencies :
              LET dependency == probe.input[idt[1]].dependencies[idt[2]]
                  es == EdgesOfDependency(idt[1], idt[3])
              IN  /\ Len(es) = 1
                  /\ IF dependency.form # "str" /\ dependency.dependency_type = "derived"
                     THEN /\ DictGet(es[1].attributes, "style") = "dotted"
                          /\ es[1].label
                                = IF dependency.description \notin {None, ""}
                                  THEN "derived (" \o dependency.description \o ")"
                                  ELSE "derived"
                     ELSE /\ DictGet(es[1].attributes, "style") = "dashed"
                          /\ DictGet(es[1].attributes, "color") = "red"
                          /\ es[1].label = "depends on"

\* C18's case: a derived dependency with a description, a derived one without and a
\* plain-string one, none with a branch of its own, have their edges
C18_Witness ==
    /\ probe.fn = "_create_dependency_edges"
    /\ probe.done
    /\ Cardinality(FallbackDependencies) >= 3
    /\ \E e \in Range(probe.edges) : e.label = "derived (same subnet)"
    /\ \E e \in Range(probe.edges) : e.label = "derived"
    /\ \E e \in Range(probe.edges) : e.label = "depends on"

(***************************************************************************)
(* _filter_redundant_edges on its own: SpecSuppress.                       *)
(***************************************************************************)
MaxSuppressEdges == 3

SuppressNodes ==
    <<GraphNode("network_nic1_networkinterfaces", "nic1", "nic1", "Network", T_NIC, <<>>),
      GraphNode("compute_vm1_virtualmachines", "vm1", "vm1", "Compute", T_VM, <<>>),
      GraphNode("network_pip1_publicipaddresses", "pip1", "pip1", "Network", T_PIP, <<>>),
      GraphNode("compute_disk1_disks", "disk1", "disk1", "Compute", T_Disk, <<>>)>>

AssociationEdge(source, target) ==
    GraphEdge(source, target, "attached_to", "association",
              <<[key |-> "style", value |-> "solid"], [key |-> "color", value |-> "blue"]>>)

DependsOnEdge(source, target) ==
    GraphEdge(source, target, "depends on", "dependency",
              <<[key |-> "style", value |-> "dashed"], [key |-> "color", value |-> "red"]>>)

SuppressEdgePool ==
    {AssociationEdge("network_nic1_networkinterfaces", "compute_vm1_virtualmachines"),
     DependsOnEdge("network_nic1_networkinterfaces", "compute_vm1_virtualmachines"),
     DependsOnEdge("compute_vm1_virtualmachines", "network_nic1_networkinterfaces"),
     DependsOnEdge("network_nic1_networkinterfaces", "network_pip1_publicipaddresses"),
     DependsOnEdge("network_pip1_publicipaddresses", "network_nic1_networkinterfaces"),
     DependsOnEdge("compute_vm1_virtualmachines", "compute_disk1_disks"),
     DependsOnEdge("compute_disk1_disks", "compute_vm1_virtualmachines")}

InitSuppress ==
    /\ NewBuilder(DefaultConfig)
    /\ probe \in [fn : {"_filter_redundant_edges"},
                  edges : DistinctSeqsUpTo(SuppressEdgePool, MaxSuppressEdges),
                  done : {FALSE}, filtered_edges : {<<>>}]

\* filtered_edges = self._filter_redundant_edges(self.edges), self.nodes holding the
\* node of every end
FilterRedundantEdges ==
    /\ probe.fn = "_filter_redundant_edges"
    /\ ~probe.done
    /\ probe' = [probe EXCEPT !.done = TRUE,
                              !.filtered_edges
                                  = _filter_redundant_edges(probe.edges, SuppressNodes)]
    /\ UNCHANGED <<builder, pc>>

NextSuppress == FilterRedundantEdges

SpecSuppress == InitSuppress /\ [][NextSuppress]_vars

\* the edges of es between the two nodes of pair, whatever their direction
EdgesOfPair(es, pair) == SelectSeq(es, LAMBDA e : {e.source, e.target} = pair)

\* the type of the node with that id
SuppressNodeType(id) ==
    StrLower((CHOOSE n \in Range(SuppressNodes) : n.id = id).resource_type)

\* a preferred-direction rule covers the edge: it runs from a network interface to a
\* virtual machine or to a public IP
PreferredDirection(e) ==
    /\ SuppressNodeType(e.source) = "microsoft.network/networkinterfaces"
    /\ SuppressNodeType(e.target) \in {"microsoft.compute/virtualmachines",
                                       "microsoft.network/publicipaddresses"}

\* the pair has exactly two edges, in opposite directions, one of them preferred
Suppressible(pair_edges) ==
    /\ Len(pair_edges) = 2
    /\ pair_edges[1].source = pair_edges[2].target
    /\ pair_edges[1].target = pair_edges[2].source
    /\ PreferredDirection(pair_edges[1]) \/ PreferredDirection(pair_edges[2])

\* C19: bidirectional suppression keeps every edge of a pair unchanged unless the pair
\* has exactly two edges, in opposite directions, covered by a preferred-direction
\* rule.
C19_SuppressionOnlyOfOppositePairs ==
    (probe.fn = "_filter_redundant_edges" /\ probe.done) =>
        \A e \in Range(probe.edges) :
            LET pair == {e.source, e.target}
            IN  ~Suppressible(EdgesOfPair(probe.edges, pair))
                => EdgesOfPair(probe.filtered_edges, pair) = EdgesOfPair(probe.edges, pair)

(***************************************************************************)
(* The clusters of a build (Spec).                                         *)
(***************************************************************************)
\* the owning groups of the filtered resources other than Internet gateways
OwningGroups ==
    {Filtered[i].resource_group :
        i \in {j \in 1..Len(Filtered) :
                  StrLower(Filtered[j].resource_type) # "internet/gateway"}}

\* the ids of the graph's Internet-gateway nodes
InternetNodeIds ==
    {graph.nodes[n].key :
        n \in {m \in 1..Len(graph.nodes) :
                  /\ DictHas(graph.nodes[m].value, "resource_type")
                  /\ StrLower(DictGet(graph.nodes[m].value, "resource_type").v)
                        = "internet/gateway"}}

\* C20: after build_graph on a new builder the cluster map has exactly one cluster for
\* each owning group of the filtered resources other than Internet gateways, every id
\* a cluster lists is a node of the graph, and no cluster lists an Internet-gateway
\* node.
C20_OneClusterPerOwningGroup ==
    (pc = "built" /\ builds = 1) =>
        /\ {subgraphs[c].key : c \in 1..Len(subgraphs)}
              = {"cluster_" \o rg : rg \in OwningGroups}
        /\ Len(subgraphs) = Cardinality(OwningGroups)
        /\ \A c \in 1..Len(subgraphs) :
              \A id \in Range(subgraphs[c].value.nodes) :
                  HasNode(graph, id) /\ id \notin InternetNodeIds

(***************************************************************************)
(* AzViz.export_diagram and the renderer it invokes: SpecExport.           *)
(***************************************************************************)
\* what get_resources_in_group can return for each resource group of the subscription
DiscoveredIn(rg) ==
    IF rg = "rg1"
    THEN {<<>>,
          <<AzureResource("vm1", T_VM, "Compute", "rg1", <<Explicit("disk1")>>, <<>>)>>,
          <<AzureResource("vm1", T_VM, "Compute", "rg1", <<Explicit("disk1")>>, <<>>),
            AzureResource("disk1", T_Disk, "Compute", "rg1", <<>>, <<>>)>>}
    ELSE {<<>>, <<AzureResource("nic1", T_NIC, "Network", "rg2", <<Explicit("vm1")>>, <<>>)>>}

\* the messages the Graphviz library fails with
RendererMessages == {"syntax error in line 1 near '{'", "failed to execute dot"}

\* what graphviz.Source.render / pipe does with the document
RenderResults ==
    {[raised |-> None, message |-> ""]}
    \cup [raised : {"ExecutableNotFound", "CalledProcessError"}, message : RendererMessages]

\* str(list) of a list of strings
ReprStrList(list) ==
    LET RECURSIVE Items(_)
        Items(i) == IF i > Len(list) THEN ""
                    ELSE (IF i > 1 THEN ", " ELSE "") \o "'" \o list[i] \o "'" \o Items(i + 1)
    IN  "[" \o Items(1) \o "]"

\* format_extensions[output_format]
format_extensions(output_format) ==
    CASE output_format = "png" -> ".png"
      [] output_format = "svg" -> ".svg"
      [] output_format = "html" -> ".html"

Returned == [kind |-> None, message |-> ""]

Raise(kind, message) == [kind |-> kind, message |-> message]

\* GraphRenderer(): _check_graphviz_installation
GraphRenderer(dot_installed) ==
    IF ~dot_installed
    THEN Raise("RuntimeError", "Graphviz 'dot' executable not found. Please install Graphviz")
    ELSE Returned

\* GraphRenderer.render
render(render_result) ==
    IF render_result.raised = "ExecutableNotFound"
    THEN Raise("RuntimeError", "Graphviz executable not found: " \o render_result.message)
    ELSE IF render_result.raised # None
    THEN Raise("RuntimeError", "Failed to render graph: " \o render_result.message)
    ELSE Returned

\* the steps of export_diagram after generate_dot: the side file, the extension check
\* and the rendering
ExportRendering(save_dot, actual_extension, output_format, dot_installed, render_result) ==
    IF save_dot /\ GraphRenderer(dot_installed).kind # None
    THEN GraphRenderer(dot_installed)
    ELSE IF actual_extension # "" /\ actual_extension # format_extensions(output_format)
    THEN Raise("ValueError", "Output file extension '" \o actual_extension
                                \o "' does not match format '" \o output_format \o "'")
    ELSE IF GraphRenderer(dot_installed).kind # None
    THEN GraphRenderer(dot_installed)
    ELSE render(render_result)

\* export_diagram with the renderer constructed before the discovery
ExportOutcomeRendererFirst(resource_groups, all_resources, build_raised, save_dot, actual_extension, output_format, dot_installed, render_result) ==
    IF GraphRenderer(dot_installed).kind # None
    THEN GraphRenderer(dot_installed)
    ELSE IF resource_groups = <<>>
    THEN Raise("ValueError", "No resource groups found in subscription")
    ELSE IF all_resources = <<>>
    THEN Raise("ValueError", "No resources found in resource groups: "
                                \o ReprStrList(resource_groups))
    ELSE IF build_raised # None
    THEN Raise(build_raised, "")
    ELSE ExportRendering(save_dot, actual_extension, output_format, dot_installed,
                         render_result)

\* how export_diagram ends: the exception it raises, or none when it returns the path
ExportOutcome(resource_groups, all_resources, build_raised, save_dot, actual_extension, output_format, dot_installed, render_result) ==
    IF resource_groups = <<>>
    THEN Raise("ValueError", "No resource groups found in subscription")
    ELSE IF all_resources = <<>>
    THEN Raise("ValueError", "No resources found in resource groups: "
                                \o ReprStrList(resource_groups))
    ELSE IF build_raised # None
    THEN Raise(build_raised, "")
    ELSE ExportRendering(save_dot, actual_extension, output_format, dot_installed,
                         render_result)

InitExport ==
    /\ NewBuilder(DefaultConfig)
    /\ probe = [fn |-> "export_diagram", done |-> FALSE, resource_groups |-> <<>>,
                save_dot |-> FALSE, actual_extension |-> "", output_format |-> "png",
                dot_installed |-> TRUE, render_result |-> [raised |-> None, message |-> ""],
                outcome |-> Returned]

\* AzViz.export_diagram(resource_group, output_file, output_format=..., save_dot=...),
\* in an environment where Graphviz is installed or not and accepts the document or not
ExportDiagram ==
    /\ probe.fn = "export_diagram"
    /\ ~probe.done
    /\ \E resource_group \in {<<>>, <<"rg1">>, <<"rg1", "rg2">>},
          all_rgs \in {<<>>, <<"rg1", "rg2">>},
          in_rg1 \in DiscoveredIn("rg1"), in_rg2 \in DiscoveredIn("rg2") :
          \E resource_groups \in {IF resource_group = <<>> THEN all_rgs ELSE resource_group} :
          \E rs \in {IF resource_groups = <<>> THEN <<>>
                     ELSE in_rg1 \o (IF Len(resource_groups) = 2 THEN in_rg2 ELSE <<>>)} :
          \E ns \in {_create_resource_nodes(_group_resources(rs, config), config)} :
          \E dependency \in {_create_dependency_edges(rs)} :
          \E es \in {dependency.edges} :
          \E g \in {_populate_networkx_graph(EmptyGraph, ns, es)} :
          \E subs \in {_create_subgraphs(rs, g, <<>>)} :
          \E dot_content \in {generate_dot(g, subs, config)} :
          \E save_dot \in BOOLEAN, actual_extension \in {"", ".png", ".svg"},
             output_format \in {"png", "svg"}, dot_installed \in BOOLEAN,
             render_result \in RenderResults :
          \E outcome \in {ExportOutcome(resource_groups, rs, dependency.raised, save_dot,
                                        actual_extension, output_format, dot_installed,
                                        render_result)} :
              /\ probe' = [fn |-> "export_diagram", done |-> TRUE,
                           resource_groups |-> resource_groups, save_dot |-> save_dot,
                           actual_extension |-> actual_extension,
                           output_format |-> output_format,
                           dot_installed |-> dot_installed,
                           render_result |-> render_result, outcome |-> outcome]
              /\ resources' = rs
              /\ IF rs = <<>>
                 THEN /\ pc' = "raised"
                      /\ UNCHANGED <<nodes, edges, graph, subgraphs, dot, builds>>
                 ELSE /\ nodes' = ns
                      /\ edges' = es
                      /\ builds' = 1
                      /\ IF dependency.raised # None
                         THEN /\ pc' = "raised"
                              /\ UNCHANGED <<graph, subgraphs, dot>>
                         ELSE /\ graph' = g
                              /\ subgraphs' = subs
                              /\ dot' = dot_content
                              /\ pc' = IF outcome.kind = None THEN "generated" ELSE "raised"
    /\ UNCHANGED <<config, topology>>

NextExport == ExportDiagram

SpecExport == InitExport /\ [][NextExport]_vars

\* the renderer was invoked and failed: it is missing when export_diagram constructs it,
\* or it is given the document and rejects it
RendererFailed ==
    /\ probe.resource_groups # <<>>
    /\ resources # <<>>
    /\ \/ probe.save_dot /\ ~probe.dot_installed
       \/ /\ probe.actual_extension \in {"", format_extensions(probe.output_format)}
          /\ ~probe.dot_installed \/ probe.render_result.raised # None

\* C21: export_diagram reports zero discovered resources as a ValueError, and a missing
\* renderer or a rejected document as a RuntimeError that carries the renderer's
\* message; a run with no resources never ends in a RuntimeError and a renderer
\* failure never ends in a ValueError.
C21_DistinctErrorKinds ==
    (probe.fn = "export_diagram" /\ probe.done) =>
        /\ resources = <<>> => probe.outcome.kind = "ValueError"
        /\ RendererFailed =>
              /\ probe.outcome.kind = "RuntimeError"
              /\ probe.dot_installed
                 => StrContains(probe.outcome.message, probe.render_result.message)
        /\ probe.outcome.kind = "RuntimeError" => RendererFailed

\* C21's case: an export that asked for the side file found no resources in its groups
\* while the renderer was missing, and ended in the ValueError
C21_Witness ==
    /\ probe.fn = "export_diagram"
    /\ probe.done
    /\ probe.resource_groups # <<>>
    /\ resources = <<>>
    /\ probe.save_dot
    /\ ~probe.dot_installed
    /\ probe.outcome.kind = "ValueError"

\* an export whose document the renderer rejected ended in the RuntimeError with the
\* renderer's message
C21_RejectedReached ==
    /\ probe.fn = "export_diagram"
    /\ probe.done
    /\ probe.dot_installed
    /\ probe.render_result.raised = "CalledProcessError"
    /\ probe.outcome.kind = "RuntimeError"
    /\ probe.outcome.message = "Failed to render graph: " \o probe.render_result.message

(***************************************************************************)
(* AzureResource.add_dependency and get_dependency_names: SpecDependency.  *)
(***************************************************************************)
MaxCalls == 2

\* an argument the caller leaves out, so that the parameter takes its default
NotGiven == "<not given>"

\* resource.add_dependency(target_name, dependency_type, description): the resource after
\* the call
add_dependency(resource, target_name, dependency_type, description) ==
    LET dependency ==
            ResourceDependency(target_name,
                               IF dependency_type = NotGiven THEN "explicit"
                               ELSE dependency_type,
                               IF description = NotGiven THEN None ELSE description)
    IN  [resource EXCEPT !.dependencies = Append(@, dependency)]

\* the dependency lists a resource is constructed with: empty, or with entries in the
\* legacy plain-string form
ConstructedDependencies ==
    {<<>>, <<StrDependency("nic1")>>, <<StrDependency("vnet1"), Explicit("disk1")>>}

InitDependency ==
    /\ NewBuilder(DefaultConfig)
    /\ \E dependencies \in ConstructedDependencies :
          probe = [fn |-> "add_dependency",
                   resource |-> AzureResource("vm1", T_VM, "Compute", "rg1",
                                              dependencies, <<>>),
                   constructed |-> dependencies, calls |-> <<>>,
                   names |-> <<>>, names_after |-> -1]

\* resource.add_dependency(target_name[, dependency_type[, description]])
AddDependency ==
    /\ probe.fn = "add_dependency"
    /\ Len(probe.calls) < MaxCalls
    /\ \E target_name \in {"nic1", "disk1"},
          dependency_type \in {NotGiven, "explicit", "derived"},
          description \in {NotGiven, "same subnet"} :
          probe' = [probe EXCEPT
                      !.resource = add_dependency(@, target_name, dependency_type,
                                                  description),
                      !.calls = Append(@, [target_name |-> target_name,
                                           dependency_type |-> dependency_type,
                                           description |-> description])]
    /\ UNCHANGED <<builder, pc>>

\* names = resource.get_dependency_names()
GetDependencyNames ==
    /\ probe.fn = "add_dependency"
    /\ probe' = [probe EXCEPT !.names = get_dependency_names(probe.resource),
                              !.names_after = Len(probe.calls)]
    /\ UNCHANGED <<builder, pc>>

NextDependency == AddDependency \/ GetDependencyNames

SpecDependency == InitDependency /\ [][NextDependency]_vars

\* the target names of a dependency list, whatever the form of its entries
TargetNames(dependencies) ==
    [i \in 1..Len(dependencies) |-> dependencies[i].target_name]

\* C22: after any sequence of add_dependency calls the dependency list is the list the
\* resource was constructed with followed by one entry per call, in call order, with the
\* call's target name, its dependency kind (explicit when not given) and its
\* description (none when not given); get_dependency_names returns the target names of
\* all entries in that order, plain-string entries included.
C22_DependenciesInCallOrder ==
    probe.fn = "add_dependency" =>
        /\ Len(probe.resource.dependencies) = Len(probe.constructed) + Len(probe.calls)
        /\ SubSeq(probe.resource.dependencies, 1, Len(probe.constructed))
              = probe.constructed
        /\ \A c \in 1..Len(probe.calls) :
              LET entry == probe.resource.dependencies[Len(probe.constructed) + c]
                  call == probe.calls[c]
              IN  /\ entry.form = "ResourceDependency"
                  /\ entry.target_name = call.target_name
                  /\ entry.dependency_type
                        = IF call.dependency_type = NotGiven THEN "explicit"
                          ELSE call.dependency_type
                  /\ entry.description
                        = IF call.description = NotGiven THEN None ELSE call.description
        /\ probe.names_after = Len(probe.calls)
           => probe.names
                 = TargetNames(probe.constructed)
                   \o [c \in 1..Len(probe.calls) |-> probe.calls[c].target_name]

\* C22's case: two calls, one with defaults and one derived with a description, on a
\* resource constructed with a plain-string entry, and the names read afterwards
C22_Witness ==
    /\ probe.fn = "add_dependency"
    /\ Len(probe.calls) = 2
    /\ probe.calls[1].dependency_type = NotGiven
    /\ probe.calls[2].dependency_type = "derived"
    /\ probe.calls[2].description = "same subnet"
    /\ probe.constructed # <<>>
    /\ probe.constructed[1].form = "str"
    /\ probe.names_after = 2
    /\ Len(probe.names) = Len(probe.constructed) + 2

(***************************************************************************)
(* IconManager: SpecIcons.                                                 *)
(***************************************************************************)
MaxMappingCalls == 2

\* self.icon_mappings as IconManager.__init__ fills it
icon_mappings ==
    <<[key |-> "microsoft.compute/virtualmachines", value |-> "virtualmachines.png"],
      [key |-> "microsoft.compute/virtualmachinescalesets", value |-> "virtualmachinescalesets.png"],
      [key |-> "microsoft.compute/availabilitysets", value |-> "AvailabilitySets.png"],
      [key |-> "microsoft.compute/disks", value |-> "Disks.png"],
      [key |-> "microsoft.compute/snapshots", value |-> "DiskSnapshots.png"],
      [key |-> "microsoft.compute/images", value |-> "VMImages.png"],
      [key |-> "microsoft.compute/sshpublickeys", value |-> "keyvaults.png"],
      [key |-> "microsoft.compute/virtualmachines/extensions", value |-> "extensions.png"],
      [key |-> "microsoft.compute/galleries", value |-> "VMImages.png"],
      [key |-> "microsoft.compute/galleries/images", value |-> "VMImages.png"],
      [key |-> "microsoft.compute/galleries/images/versions", value |-> "VMImages.png"],
      [key |-> "microsoft.web/sites", value |-> "functions.png"],
      [key |-> "microsoft.servicefabric/clusters", value |-> "servicefabric.png"],
      [key |-> "microsoft.network/virtualnetworks", value |-> "virtualnetworks.png"],
      [key |-> "microsoft.network/virtualnetworkgateways", value |-> "virtualnetworkgateways.png"],
      [key |-> "microsoft.network/loadbalancers", value |-> "LoadBalancers.png"],
      [key |-> "microsoft.network/applicationgateways", value |-> "ApplicationGateway.png"],
      [key |-> "microsoft.network/applicationgatewaywebapplicationfirewallpolicies", value |-> "ApplicationGateway.png"],
      [key |-> "microsoft.network/networksecuritygroups", value |-> "networksecuritygroups.png"],
      [key |-> "microsoft.network/publicipaddresses", value |-> "publicip.png"],
      [key |-> "microsoft.network/routetables", value |-> "routetables.png"],
      [key |-> "microsoft.network/trafficmanagerprofiles", value |-> "trafficmanagerprofiles.png"],
      [key |-> "microsoft.network/frontdoors", value |-> "FrontDoors.png"],
      [key |-> "microsoft.network/connections", value |-> "Connections.png"],
      [key |-> "microsoft.network/networkinterfaces", value |-> "nic.png"],
      [key |-> "microsoft.network/networkwatchers", value |-> "NetworkWatcher.png"],
      [key |-> "microsoft.network/dnszones", value |-> "appservices.png"],
      [key |-> "microsoft.network/privatednszones", value |-> "appservices.png"],
      [key |-> "microsoft.network/privatednszones/virtualnetworklinks", value |-> "Connections.png"],
      [key |-> "microsoft.network/privateendpoints", value |-> "Connections.png"],
      [key |-> "microsoft.network/privatelinkservices", value |-> "Connections.png"],
      [key |-> "microsoft.network/virtualnetworks/subnets", value |-> "virtualnetworks.png"],
      [key |-> "internet/gateway", value |-> "FrontDoors.png"],
      [key |-> "microsoft.storage/storageaccounts", value |-> "storageaccounts.png"],
      [key |-> "microsoft.sql/servers", value |-> "sqlservers.png"],
      [key |-> "microsoft.documentdb/databaseaccounts", value |-> "cosmosdb.png"],
      [key |-> "microsoft.cache/redis", value |-> "redis.png"],
      [key |-> "microsoft.dbforpostgresql/flexibleservers", value |-> "sqlservers.png"],
      [key |-> "microsoft.containerregistry/registries", value |-> "ContainerRegistries.png"],
      [key |-> "microsoft.containerinstance/containergroups", value |-> "containerinstances.png"],
      [key |-> "microsoft.containerservice/managedclusters", value |-> "KubernetesServices.png"],
      [key |-> "microsoft.redhatopenshift/openshiftclusters", value |-> "KubernetesServices.png"],
      [key |-> "microsoft.databricks/workspaces", value |-> "databricks.png"],
      [key |-> "microsoft.datafactory/factories", value |-> "DataFactories.png"],
      [key |-> "microsoft.eventhub/namespaces", value |-> "EventHubs.png"],
      [key |-> "microsoft.eventhub/clusters", value |-> "EventHubClusters.png"],
      [key |-> "microsoft.operationalinsights/workspaces", value |-> "LogAnalyticsWorkspaces.png"],
      [key |-> "microsoft.datalakeanalytics/accounts", value |-> "DataLakeAnalytics.png"],
      [key |-> "microsoft.keyvault/vaults", value |-> "keyvaults.png"],
      [key |-> "microsoft.automation/automationaccounts", value |-> "automation.png"],
      [key |-> "microsoft.resources/resourcegroups", value |-> "ResourceGroups.png"],
      [key |-> "microsoft.resources/subscriptions", value |-> "Subscriptions.png"],
      [key |-> "microsoft.resources/deploymentscripts", value |-> "automation.png"],
      [key |-> "microsoft.web/serverfarms", value |-> "appservices.png"],
      [key |-> "microsoft.cdn/profiles", value |-> "cdnprofiles.png"],
      [key |-> "microsoft.insights/components", value |-> "applicationinsights.png"],
      [key |-> "microsoft.operationsmanagement/solutions", value |-> "LogAnalyticsWorkspaces.png"],
      [key |-> "microsoft.web/connections", value |-> "APIConnections.png"],
      [key |-> "microsoft.media/mediaservices", value |-> "mediaservices.png"],
      [key |-> "microsoft.appconfiguration/configurationstores", value |-> "appconfiguration.png"],
      [key |-> "microsoft.solutions/applications", value |-> "solutions.png"],
      [key |-> "microsoft.managedidentity/userassignedidentities", value |-> "managedidentities.png"]>>

icon_directory == "azure_icons/General Service Icons"

\* del d[key]
DictDel(d, key) == SelectSeq(d, LAMBDA entry : entry.key # key)

\* d.get(key)
DictGetOrNone(d, key) == IF DictHas(d, key) THEN DictGet(d, key) ELSE None

\* get_icon_path(resource_type) on a manager with these mappings, the files of the icon
\* directory being existing_files
get_icon_path(mappings, existing_files, resource_type) ==
    LET normalized_type == StrLower(resource_type)
        icon_filename == DictGetOrNone(mappings, normalized_type)
    IN  IF icon_filename \in {None, ""} THEN None
        ELSE IF icon_filename \in existing_files
        THEN icon_directory \o "/" \o icon_filename
        ELSE None

\* add_custom_mapping(resource_type, icon_filename): self.icon_mappings after the call
add_custom_mapping(mappings, resource_type, icon_filename) ==
    DictSet(mappings, StrLower(resource_type), icon_filename)

\* get_available_icons returning self.icon_mappings itself
get_available_icons_same_object(mappings) == [same_object |-> TRUE, value |-> mappings]

\* get_available_icons(): the dict it returns, and whether that dict is the object
\* self.icon_mappings
get_available_icons(mappings) == [same_object |-> FALSE, value |-> mappings]

CustomTypes == {"Microsoft.Compute/virtualMachines", "Custom.Resource/Type"}

CustomFiles == {"custom-icon.png", "missing.png"}

InitIcons ==
    /\ NewBuilder(DefaultConfig)
    /\ \E existing_files \in {{"virtualmachines.png", "custom-icon.png"}} :
          probe = [fn |-> "icon_manager", icon_mappings |-> icon_mappings,
                   existing_files |-> existing_files, calls |-> <<>>,
                   last |-> "__init__", before |-> icon_mappings,
                   returned |-> [same_object |-> FALSE, value |-> <<>>],
                   asked |-> "", icon_path |-> None]

\* icon_manager.add_custom_mapping(resource_type, icon_filename)
AddCustomMapping ==
    /\ probe.fn = "icon_manager"
    /\ Len(probe.calls) < MaxMappingCalls
    /\ \E resource_type \in CustomTypes, icon_filename \in CustomFiles :
          probe' = [probe EXCEPT
                      !.icon_mappings = add_custom_mapping(@, resource_type, icon_filename),
                      !.calls = Append(@, [resource_type |-> resource_type,
                                           icon_filename |-> icon_filename]),
                      !.last = "add_custom_mapping",
                      !.before = probe.icon_mappings]
    /\ UNCHANGED <<builder, pc>>

\* mappings = icon_manager.get_available_icons()
GetAvailableIcons ==
    /\ probe.fn = "icon_manager"
    /\ probe' = [probe EXCEPT !.returned = get_available_icons(probe.icon_mappings),
                              !.last = "get_available_icons",
                              !.before = probe.icon_mappings]
    /\ UNCHANGED <<builder, pc>>

\* the caller changes the dict it was given: mappings[key] = value, or del mappings[key]
ModifyReturned ==
    /\ probe.fn = "icon_manager"
    /\ probe.returned.value # <<>>
    /\ \E key \in {"microsoft.compute/virtualmachines", "custom.resource/type"} :
       \E modified \in {DictSet(probe.returned.value, key, "nic.png"),
                        DictDel(probe.returned.value, key)} :
          probe' = [probe EXCEPT
                      !.returned.value = modified,
                      !.icon_mappings = IF probe.returned.same_object THEN modified ELSE @,
                      !.last = "modify",
                      !.before = probe.icon_mappings]
    /\ UNCHANGED <<builder, pc>>

\* icon_path = icon_manager.get_icon_path(resource_type)
GetIconPath ==
    /\ probe.fn = "icon_manager"
    /\ \E resource_type \in CustomTypes :
          probe' = [probe EXCEPT
                      !.asked = resource_type,
                      !.icon_path = get_icon_path(probe.icon_mappings,
                                                  probe.existing_files, resource_type),
                      !.last = "get_icon_path",
                      !.before = probe.icon_mappings]
    /\ UNCHANGED <<builder, pc>>

NextIcons == AddCustomMapping \/ GetAvailableIcons \/ ModifyReturned \/ GetIconPath

SpecIcons == InitIcons /\ [][NextIcons]_vars

\* a dict as the set of its (key, value) pairs
Items(d) == {<<d[i].key, d[i].value>> : i \in 1..Len(d)}

RECURSIVE ItemsAfter(_, _)
\* the pairs of the constructed table after the add_custom_mapping calls, the later call
\* winning
ItemsAfter(items, calls) ==
    IF calls = <<>> THEN items
    ELSE LET key == StrLower(calls[1].resource_type)
         IN  ItemsAfter({item \in items : item[1] # key}
                           \cup {<<key, calls[1].icon_filename>>},
                        Tail(calls))

\* C23: after add_custom_mapping(t, f) the manager's mapping associates the lower-cased
\* t with f and every other entry is as before; get_available_icons returns that
\* mapping, and whatever the caller does to the returned dict, a later
\* get_available_icons or get_icon_path sees the table built by the constructor and the
\* add_custom_mapping calls alone.
C23_CustomMappingAndCopy ==
    probe.fn = "icon_manager" =>
        \A expected \in {ItemsAfter(Items(icon_mappings), probe.calls)} :
            /\ probe.last = "add_custom_mapping" =>
                  LET call == probe.calls[Len(probe.calls)]
                      key == StrLower(call.resource_type)
                  IN  /\ <<key, call.icon_filename>> \in Items(probe.icon_mappings)
                      /\ {item \in Items(probe.icon_mappings) : item[1] # key}
                            = {item \in Items(probe.before) : item[1] # key}
            /\ Items(probe.icon_mappings) = expected
            /\ Cardinality(expected) = Len(probe.icon_mappings)
            /\ probe.last = "get_available_icons" =>
                  Items(probe.returned.value) = expected
            /\ probe.last = "get_icon_path" =>
                  LET asked == {item \in expected : item[1] = StrLower(probe.asked)}
                  IN  probe.icon_path
                         = IF \E item \in asked : item[2] \in probe.existing_files
                           THEN icon_directory \o "/" \o (CHOOSE item \in asked : TRUE)[2]
                           ELSE None

\* C23's case: a custom mapping was added, the caller changed the dict it was returned,
\* and the icon of the custom type was then looked up and found
C23_Witness ==
    /\ probe.fn = "icon_manager"
    /\ probe.calls # <<>>
    /\ probe.returned.value # <<>>
    /\ Items(probe.returned.value) # Items(probe.icon_mappings)
    /\ probe.last = "get_icon_path"
    /\ probe.asked = "Custom.Resource/Type"
    /\ probe.icon_path # None

(***************************************************************************)
(* The legend and the layout direction of the document: SpecLegend.        *)
(***************************************************************************)
MaxLegendInput == 2

InitLegend ==
    /\ \E show_legends \in BOOLEAN, direction \in {"left-to-right", "top-to-bottom"} :
          NewBuilder([DefaultConfig EXCEPT !.show_legends = show_legends,
                                           !.direction = direction])
    /\ probe = [fn |-> "build_graph"]

BuildLegend ==
    BuildGraph(DistinctSeqsUpTo(DependencyPool, MaxLegendInput), DependencyTopologies)

NextLegend == BuildLegend \/ GenerateDot

SpecLegend == InitLegend /\ [][NextLegend]_vars

\* the document has the legend block
HasLegendBlock(d) ==
    \E i \in 1..Len(d) : d[i].stmt = "subgraph" /\ d[i].name = "cluster_legend"

\* the kinds of the edges of the assembled graph
GraphEdgeKinds ==
    {DictGet(graph.edges[i].data, "edge_type") :
        i \in {j \in 1..Len(graph.edges) : DictHas(graph.edges[j].data, "edge_type")}}

\* C24: the emitted document has the legend block only if the config's show_legends is
\* set and the graph has at least one edge of kind association or dependency; with
\* show_legends unset the document never has it.
C24_LegendOnlyWhenToggledAndWarranted ==
    pc = "generated" =>
        /\ HasLegendBlock(dot)
           => config.show_legends /\ GraphEdgeKinds \cap {"association", "dependency"} # {}
        /\ ~config.show_legends => ~HasLegendBlock(dot)

\* C24's case: a document generated with show_legends unset from a graph that has a
\* dependency edge
C24_Witness ==
    /\ pc = "generated"
    /\ ~config.show_legends
    /\ "dependency" \in GraphEdgeKinds
    /\ ~HasLegendBlock(dot)

\* a document with the legend block, and one without it although show_legends is set
C24_LegendReached ==
    pc = "generated" /\ config.show_legends /\ HasLegendBlock(dot)

C24_NoEdgesReached ==
    pc = "generated" /\ config.show_legends /\ ~HasLegendBlock(dot) /\ graph.nodes # <<>>

\* the rank direction the document's graph attributes give
RankDirOf(d) == d[CHOOSE i \in 1..Len(d) : d[i].stmt = "graph"].rankdir

\* C25: the rank direction in the graph attributes of the emitted document follows the
\* config's direction: "LR" for left-to-right and "TB" for top-to-bottom.
C25_DirectionFollowsConfig ==
    pc = "generated" =>
        /\ config.direction = "left-to-right" => RankDirOf(dot) = "LR"
        /\ config.direction = "top-to-bottom" => RankDirOf(dot) = "TB"

(***************************************************************************)
(* The attributes of the graph's nodes, for property bags of every shape:  *)
(* SpecAttributes.                                                         *)
(***************************************************************************)
MaxAttributeInput == 3

PyDict(entries) == [t |-> "dict", v |-> entries]

PyList(items) == [t |-> "list", v |-> items]

PyListOfDict(items) == [t |-> "list_of_dict", v |-> items]

\* resources whose property bags hold scalars, nested dicts, lists and lists of dicts,
\* under keys the builder reads and under keys it does not
AttributePool ==
    {AzureResource("vm1", T_VM, "Compute", "rg1", <<Explicit("disk1")>>,
        <<[key |-> "power_state",
           value |-> PyDict(<<[key |-> "code", value |-> PyStr("PowerState/running")]>>)],
          [key |-> "vm_size", value |-> PyStr("Standard_B2s")],
          [key |-> "os_disk_size_gb", value |-> PyInt(30)],
          [key |-> "subnet_names", value |-> PyList(<<PyStr("default")>>)],
          [key |-> "external_pls_connections",
           value |-> PyListOfDict(<<PyDict(<<[key |-> "name", value |-> PyStr("pls1")]>>)>>)],
          [key |-> "hardware_profile",
           value |-> PyDict(<<[key |-> "sizes", value |-> PyList(<<PyInt(2), PyInt(4)>>)]>>)]>>),
     AzureResource("vm2", T_VM, "Compute", "rg1", <<>>,
        <<[key |-> "power_state", value |-> PyStr("running")],
          [key |-> "https_only", value |-> PyBool(TRUE)]>>),
     AzureResource("disk1", T_Disk, "Compute", "rg1", <<>>,
        <<[key |-> "disk_size_gb", value |-> PyInt(128)],
          [key |-> "sku", value |-> PyDict(<<[key |-> "name", value |-> PyStr("Premium_LRS")]>>)]>>),
     AzureResource("apps.example.io", "Microsoft.Network/dnszones", "Network", "rg1", <<>>,
                   <<>>),
     AzureResource("aro1", "Microsoft.RedHatOpenShift/OpenShiftClusters", "RedHatOpenShift",
        "rg1", <<>>,
        <<[key |-> "openshift_dns_domains",
           value |-> PyList(<<PyStr("aro1.example.io")>>)]>>),
     AzureResource("aro2", "Microsoft.RedHatOpenShift/OpenShiftClusters", "RedHatOpenShift",
        "rg1", <<>>,
        <<[key |-> "openshift_dns_domains",
           value |-> PyList(<<PyList(<<PyStr("aro2.example.io")>>), PyInt(443)>>)]>>)}

InitAttributes ==
    /\ \E depth \in {1, 2} : NewBuilder([DefaultConfig EXCEPT !.category_depth = depth])
    /\ probe = [fn |-> "build_graph"]

BuildAttributes == BuildGraph(DistinctSeqsUpTo(AttributePool, MaxAttributeInput), {<<>>})

NextAttributes == BuildAttributes

SpecAttributes == InitAttributes /\ [][NextAttributes]_vars

\* every attribute value of every node of the graph is a string, a number or a boolean
ScalarAttributesOnly ==
    \A n \in 1..Len(graph.nodes) :
        \A a \in 1..Len(graph.nodes[n].value) : IsScalar(graph.nodes[n].value[a].value)

\* C26: build_graph raises no exception whatever shapes the property bags hold, and
\* every attribute value attached to a node of the assembled graph is a scalar.
C26_ScalarAttributesNoException ==
    /\ pc # "raised"
    /\ pc = "built" => ScalarAttributesOnly

\* what holds of the attributes: no dict and no list is attached to a node
C26_AttachedValuesAreScalar == ScalarAttributesOnly

\* a build of resources with nested property values that ended without an exception
C26_NestedShapesBuilt ==
    /\ pc = "built"
    /\ \E r \in Range(resources) : r.name = "vm1"
    /\ \E n \in 1..Len(graph.nodes) : DictHas(graph.nodes[n].value, "prop_vm_size")

(***************************************************************************)
(* The edges and the nodes of the assembled graph (Spec).                  *)
(***************************************************************************)
\* the synthesized edges that survive bidirectional suppression
SurvivingEdges == _filter_redundant_edges(edges, nodes)

\* C27: when two synthesized edges with the same ordered (source, target) pair both
\* survive bidirectional suppression, both are in the assembled graph: the graph has as
\* many edges as there are surviving synthesized edges.
C27_EdgeMultiplicityKept ==
    pc = "built" => Len(graph.edges) = Len(SurvivingEdges)

\* the ids of the synthesized node list
SynthesizedNodeIds == {nodes[n].id : n \in 1..Len(nodes)}

\* C28: after build_graph, at every grouping depth, every edge of the assembled graph
\* has its source and its target among the ids of the synthesized node list, and every
\* node of the graph comes from that list.
C28_EndpointsAreSynthesizedNodes ==
    pc = "built" =>
        /\ \A e \in 1..Len(graph.edges) :
              /\ graph.edges[e].source \in SynthesizedNodeIds
              /\ graph.edges[e].target \in SynthesizedNodeIds
        /\ \A n \in 1..Len(graph.nodes) : graph.nodes[n].key \in SynthesizedNodeIds

(***************************************************************************)
(* The clusters of resource lists with same-named resources: SpecCluster.  *)
(***************************************************************************)
MaxClusterInput == 3

\* resources of two resource groups, among them two virtual machines of the same name
\* in different groups and two of one group whose names differ by a separator only
ClusterPool ==
    {AzureResource("web", T_VM, "Compute", "rg1", <<>>, <<>>),
     AzureResource("web", T_VM, "Compute", "rg2", <<>>, <<>>),
     AzureResource("db-1", T_VM, "Compute", "rg1", <<>>, <<>>),
     AzureResource("db_1", T_VM, "Compute", "rg1", <<>>, <<>>),
     AzureResource("nic1", T_NIC, "Network", "rg2", <<Explicit("web")>>, <<>>)}

InitCluster ==
    /\ \E depth \in {1, 2} : NewBuilder([DefaultConfig EXCEPT !.category_depth = depth])
    /\ probe = [fn |-> "build_graph"]

BuildCluster == BuildGraph(DistinctSeqsUpTo(ClusterPool, MaxClusterInput), {<<>>})

NextCluster == BuildCluster

SpecCluster == InitCluster /\ [][NextCluster]_vars

\* C29: after build_graph the clusters are disjoint: no node id is in the node list of
\* two clusters, and none is twice in the node list of one.
C29_ClustersDisjoint ==
    pc = "built" =>
        /\ \A c, d \in 1..Len(subgraphs) :
              c # d => Range(subgraphs[c].value.nodes) \cap Range(subgraphs[d].value.nodes) = {}
        /\ \A c \in 1..Len(subgraphs) :
              Cardinality(Range(subgraphs[c].value.nodes)) = Len(subgraphs[c].value.nodes)

(***************************************************************************)
(* The compute-only filter on inputs with and without compute resources    *)
(* (SpecComputeOnly).                                                      *)
(***************************************************************************)
\* C30: with compute-only enabled, an input that has no resource of a compute type is
\* filtered to the empty list whatever else it holds, and otherwise every resource of
\* the result is a resource of the input whose type is a compute type or a
\* compute-related type.
C30_ComputeOnlyResultTypes ==
    (probe.fn = "_filter_compute_only" /\ probe.applied >= 1) =>
        IF \A i \in 1..Len(probe.prev) :
               StrLower(probe.prev[i].resource_type) \notin compute_resource_types
        THEN probe.out = <<>>
        ELSE \A o \in 1..Len(probe.out) :
                /\ probe.out[o] \in Range(probe.prev)
                /\ StrLower(probe.out[o].resource_type)
                      \in compute_resource_types \cup compute_related_types

\* C30's case: an input with the Internet-gateway placeholder and a public IP but no
\* compute resource was filtered to the empty list
C30_Witness ==
    /\ probe.fn = "_filter_compute_only"
    /\ probe.applied = 1
    /\ \A i \in 1..Len(probe.input) : ~IsComputeType(probe.input[i])
    /\ \E i \in 1..Len(probe.input) :
          StrLower(probe.input[i].resource_type) = "internet/gateway"
    /\ \E i \in 1..Len(probe.input) : probe.input[i].resource_type = T_PIP
    /\ probe.out = <<>>

\* an input with a compute resource, a related resource and a resource of neither kind
\* was filtered to the first two
C30_MixedInputReached ==
    /\ probe.fn = "_filter_compute_only"
    /\ probe.applied = 1
    /\ Len(probe.input) = 3
    /\ \E i \in 1..Len(probe.input) : probe.input[i].resource_type = T_VNet
    /\ Len(probe.out) = 2

====
